---- MODULE Spec2Model ----
(***************************************************************************)
(* Resilience layer of the Google Drive service: the retry, circuit_breaker *)
(* and rate_limit decorators and the classifier is_retryable_error of      *)
(* retry_utils.py, and the facade operations of google_drive_utils.py that *)
(* stack them with handle_drive_operations of src/core/error_handling.py,  *)
(* modelled as state machines.  Each component has a specification of its  *)
(* own (SpecRetry, SpecBreaker, SpecLimiter, SpecClassify, SpecFacade,     *)
(* SpecDcbConc for the DriveCircuitBreaker under concurrent callers,       *)
(* SpecFolders for the folder walk and SpecUpload for the upload, both     *)
(* over a remote store, SpecPair for the two circuit breakers side by      *)
(* side, SpecHdo for handle_drive_operations, SpecDelete for the deletion  *)
(* of folders, SpecGuards for the argument tests of the operations and     *)
(* SpecEndpoints for the HTTP endpoints of app.py).                        *)
(*                                                                         *)
(* Time.  Delays of the retry decorator are kept in ticks, Second ticks to *)
(* the second; Second is chosen so that every product delay *              *)
(* backoff_factor * jitter_factor the model can form is a whole number of  *)
(* ticks (the integer divisions below are exact).  The clock of the        *)
(* circuit breaker counts whole units from StartTime.                      *)
(***************************************************************************)
EXTENDS Integers, Sequences, FiniteSets, TLC

VARIABLES policy,   \* retry(...) arguments, fixed when the decorator is applied
          rt,       \* retry wrapper: locals of the call in progress + what it did
          cfg,      \* circuit_breaker(...) arguments
          state,    \* circuit_breaker: the closure's state dict
          now,      \* time.time()
          cbpc,     \* per caller: position inside circuit_breaker's wrapper
          cbcall,   \* per caller: current_time and what the latest call did
          rlcfg,    \* rate_limit(...) arguments
          rl,       \* rate_limit: the closure's tokens and last_called cells
          rlpc,     \* per caller: position inside rate_limit's wrapper
          rlcall,   \* per caller: locals of the call and what it did
          cl,       \* is_retryable_error: the exception given and the answer;
                    \* handle_drive_operations: what was raised and what left
          fac,      \* facade: the operation called and its remote calls
          dcb,      \* DriveCircuitBreaker: the global _circuit_breaker
          dcbpc,    \* per caller: position inside DriveCircuitBreaker.call
          drive,    \* the remote store: folders and files in Drive
          run       \* the folder or upload operation, or the HTTP request, in
                    \* progress

vars == <<policy, rt, cfg, state, now, cbpc, cbcall, rlcfg, rl, rlpc, rlcall,
          cl, fac, dcb, dcbpc, drive, run>>
retryVars == <<policy, rt>>
breakerVars == <<cfg, state, now, cbpc, cbcall>>
limiterVars == <<rlcfg, rl, rlpc, rlcall>>
classifyVars == <<cl>>
facadeVars == <<fac, dcb, dcbpc>>
driveVars == <<drive, run>>
otherVars == <<limiterVars, classifyVars, facadeVars, driveVars>>

Min(a, b) == IF a <= b THEN a ELSE b

(***************************************************************************)
(* Bounds of the model.                                                    *)
(***************************************************************************)
MaxRetries == 3
JitterSteps == 2
Second == (4 * JitterSteps) ^ (MaxRetries + 1)

InitialDelaySeconds == {0, 1}
MaxDelaySeconds == {1, 3, 4}
BackoffHalves == {1, 2, 3, 4}        \* backoff_factor 0.5, 1.0, 1.5, 2.0

(***************************************************************************)
(* Errors.  An exception is a record of what the classifier reads: its     *)
(* type, the HTTP status (HttpError only), the body (HttpError only) and   *)
(* whether str(error) holds a connectivity keyword.  A body is "empty",    *)
(* "plain" (text with none of RETRYABLE_GOOGLE_ERRORS), "transient" (text  *)
(* with one of them) or "undecodable" (content.decode raises).             *)
(***************************************************************************)
\* faulty variant: 429 is missing from the list
RetryableStatusCodesNo429 == {500, 502, 503, 504}

RETRYABLE_STATUS_CODES == {429, 500, 502, 503, 504}

Err(type, status, body, kw) ==
    [type |-> type, status |-> status, body |-> body, kw |-> kw]

Errors ==
    { Err("RetryableError", 0, "none", FALSE),
      Err("ValueError", 0, "none", FALSE),
      Err("OSError", 0, "none", TRUE),
      Err("HttpError", 503, "plain", FALSE),
      Err("HttpError", 404, "plain", FALSE),
      Err("HttpError", 400, "transient", FALSE),
      Err("HttpError", 403, "undecodable", FALSE) }

\* error.content.decode("utf-8") and the search for RETRYABLE_GOOGLE_ERRORS:
\* a token is "found" or "absent", or the decoding "raised".
BodyScan(e) ==
    CASE e.body = "transient" -> "found"
      [] e.body = "undecodable" -> "raised"
      [] OTHER -> "absent"

\* faulty variant: no except clause around the scan
UnguardedScan(e) == BodyScan(e)

\* try: ... except Exception: pass
GuardedScan(e) == IF BodyScan(e) = "raised" THEN "absent" ELSE BodyScan(e)

\* the scan of the body returns True
BodyHasRetryableReason(e) == GuardedScan(e) = "found"

\* faulty variant: every HttpError is retried
IsRetryableAnyHttpError(e) ==
    \/ e.type = "HttpError"
    \/ e.type = "RetryableError"
    \/ e.kw

is_retryable_error(e) ==
    \/ /\ e.type = "HttpError"
       /\ \/ e.status \in RETRYABLE_STATUS_CODES
          \/ BodyHasRetryableReason(e)
    \/ e.type = "RetryableError"
    \/ e.kw

\* What a call of is_retryable_error comes to: "true", "false", or "raised"
\* when an exception leaves the function.  The scan of the body is reached
\* only by an HttpError whose status is not in RETRYABLE_STATUS_CODES.
ClassifierOutcome(e) ==
    IF /\ e.type = "HttpError"
       /\ e.status \notin RETRYABLE_STATUS_CODES
       /\ GuardedScan(e) = "raised"
    THEN "raised"
    ELSE IF is_retryable_error(e) THEN "true" ELSE "false"

\* isinstance(e, exc_type): every exception type derives from Exception.
IsInstance(e, exc_type) == exc_type = e.type \/ exc_type = "Exception"

(***************************************************************************)
(* retry decorator                                                         *)
(***************************************************************************)
\* retryable_exceptions=None, the default: no list is supplied.  A supplied
\* list is the set of its exception types.
None == {"None"}

Policies ==
    [max_retries : 0..MaxRetries,
     initial_delay : {s * Second : s \in InitialDelaySeconds},
     max_delay : {s * Second : s \in MaxDelaySeconds},
     backoff_halves : BackoffHalves,
     jitter : BOOLEAN,
     retryable_exceptions : {None, {}, {"ValueError"}}]

\* if retryable_exceptions: None and the empty list are both falsy
Truthy(retryable_exceptions) ==
    retryable_exceptions # None /\ retryable_exceptions # {}

\* A falsy allowlist (None or empty) delegates to is_retryable_error.
ShouldRetry(e, retryable_exceptions) ==
    IF Truthy(retryable_exceptions)
    THEN \E exc_type \in retryable_exceptions : IsInstance(e, exc_type)
    ELSE is_retryable_error(e)

\* faulty variant: 'and' for 'or', a non-retryable error is retried
GiveUpAnd(should_retry, retry_count, max_retries) ==
    ~should_retry /\ retry_count >= max_retries

\* if not should_retry or retry_count >= max_retries: raise
GiveUp(should_retry, retry_count, max_retries) ==
    ~should_retry \/ retry_count >= max_retries

\* faulty variant: range(max_retries), one attempt short
LoopRangeShort(max_retries) == 0..(max_retries - 1)

\* for retry_count in range(max_retries + 1)
LoopRange(max_retries) == 0..max_retries

\* jitter_factor = 0.5 + (time.time() % 1) * 0.5, the fraction of the second
\* being frac / JitterSteps: the factor is JitterNum(frac) / (2 * JitterSteps).
JitterNum(frac) == JitterSteps + frac

\* faulty variant: the delay is never multiplied
BackoffForgotten(delay, p) == delay

\* delay * backoff_factor, without jitter
Backoff(delay, p) == (delay * p.backoff_halves) \div 2

\* faulty variant: max_delay is not applied
NextDelayUncapped(delay, p, frac) ==
    IF p.jitter
    THEN (delay * p.backoff_halves * JitterNum(frac)) \div (4 * JitterSteps)
    ELSE Backoff(delay, p)

NextDelay(delay, p, frac) ==
    IF p.jitter
    THEN Min(p.max_delay,
             (delay * p.backoff_halves * JitterNum(frac)) \div (4 * JitterSteps))
    ELSE Min(p.max_delay, Backoff(delay, p))

\* An exception (a result) carries the attempt that raised (returned) it;
\* attempt 0 stands for None.
NoException == [err |-> Err("None", 0, "none", FALSE), at |-> 0]
NoResult == [val |-> "None", at |-> 0]

RetryFresh ==
    [pc |-> "ready", retry_count |-> 0, delay |-> 0, last_exception |-> NoException,
     result |-> NoResult, raised |-> NoException, calls |-> 0, sleeps |-> <<>>]

\* The end of the for loop, met only when the range is used up without a
\* return or a raise: raise last_exception, or RuntimeError when there is none.
LoopEnd(r) ==
    [r EXCEPT !.pc = "raised",
              !.raised = IF r.last_exception # NoException THEN r.last_exception
                         ELSE [err |-> Err("RuntimeError", 0, "none", FALSE), at |-> 0]]

\* wrapper entry: delay = initial_delay, last_exception = None, first iteration
RetryCall ==
    /\ rt.pc \in {"ready", "returned", "raised"}
    /\ LET entered == [RetryFresh EXCEPT !.pc = "running",
                                         !.delay = policy.initial_delay]
       IN  rt' = IF 0 \in LoopRange(policy.max_retries) THEN entered
                 ELSE LoopEnd(entered)
    /\ UNCHANGED <<policy, breakerVars, otherVars>>

\* return func(*args, **kwargs)
OnSuccess(r) ==
    [r EXCEPT !.pc = "returned",
              !.calls = @ + 1,
              !.result = [val |-> "success", at |-> r.calls + 1]]

RetryAttemptReturns ==
    /\ rt.pc = "running"
    /\ rt' = OnSuccess(rt)
    /\ UNCHANGED <<policy, breakerVars, otherVars>>

\* faulty variant: no sleep before the first retry
SleepAndLoopSkipFirst(r, d, max_retries) ==
    LET slept == [r EXCEPT !.delay = d,
                           !.sleeps = IF r.retry_count > 0 THEN Append(@, d) ELSE @,
                           !.retry_count = @ + 1]
    IN  IF slept.retry_count \in LoopRange(max_retries) THEN slept ELSE LoopEnd(slept)

\* time.sleep(delay), then the next iteration of the for loop
SleepAndLoop(r, d, max_retries) ==
    LET slept == [r EXCEPT !.delay = d,
                           !.sleeps = Append(@, d),
                           !.retry_count = @ + 1]
    IN  IF slept.retry_count \in LoopRange(max_retries) THEN slept ELSE LoopEnd(slept)

\* the except branch of one iteration: func raised e in attempt calls + 1
OnFailure(r, e, p, frac) ==
    LET exc == [err |-> e, at |-> r.calls + 1]
        failed == [r EXCEPT !.calls = @ + 1, !.last_exception = exc]
    IN  IF GiveUp(ShouldRetry(e, p.retryable_exceptions), r.retry_count, p.max_retries)
        THEN [failed EXCEPT !.pc = "raised", !.raised = exc]
        ELSE SleepAndLoop(failed, NextDelay(r.delay, p, frac), p.max_retries)

RetryAttemptRaises ==
    /\ rt.pc = "running"
    /\ \E e \in Errors, frac \in 0..(JitterSteps - 1) :
          rt' = OnFailure(rt, e, policy, frac)
    /\ UNCHANGED <<policy, breakerVars, otherVars>>

(***************************************************************************)
(* circuit_breaker decorator.  A call is three steps: the entry of the     *)
(* wrapper (the open-circuit check), the wrapped function running, and the *)
(* wrapper's bookkeeping when the function returns or raises.  The clock   *)
(* may advance at any point, also while the function runs.                 *)
(***************************************************************************)
CLOSED == 0
OPEN == 1
HALF_OPEN == 2

MaxThreshold == 3
MaxResetTimeout == 2
MaxHalfOpenTimeout == 3
MaxElapsed == 5

\* time.time() at start-up is far larger than any timeout, and than the 0 that
\* last_failure and last_success start with.
StartTime == MaxResetTimeout + MaxHalfOpenTimeout + 1

Callers == {1, 2}

Configs ==
    [failure_threshold : 1..MaxThreshold,
     reset_timeout : 0..MaxResetTimeout,
     half_open_timeout : 0..MaxHalfOpenTimeout]

\* state = {"status": 0, "failures": 0, "last_failure": 0, "last_success": 0}
BreakerFresh ==
    [status |-> CLOSED, failures |-> 0, last_failure |-> 0, last_success |-> 0]

\* Locals of a caller and what its latest call did: the state dict it found,
\* whether it invoked the function, how the function ended ("none", "ok",
\* "exc") and what the wrapper gave its caller ("none", "result",
\* "func_exception", "circuit_open").
CallFresh ==
    [current_time |-> 0, entry |-> BreakerFresh, invoked |-> FALSE,
     func |-> "none", outcome |-> "none"]

\* faulty variant: >= for >
ResetElapsedInclusive(current_time, last_failure, reset_timeout) ==
    current_time - last_failure >= reset_timeout

\* current_time - state["last_failure"] > reset_timeout
ResetElapsed(current_time, last_failure, reset_timeout) ==
    current_time - last_failure > reset_timeout

\* faulty variant: the cool-down is counted from last_success
FailFastOnLastSuccess(st, current_time, c) ==
    st.status = OPEN /\ ~ResetElapsed(current_time, st.last_success, c.reset_timeout)

\* the wrapper raises RetryableError("Circuit breaker ... is open")
FailFast(st, current_time, c) ==
    st.status = OPEN /\ ~ResetElapsed(current_time, st.last_failure, c.reset_timeout)

\* the state dict after the open-circuit check of a call that goes on
Enter(st, current_time, c) ==
    IF st.status = OPEN /\ ResetElapsed(current_time, st.last_failure, c.reset_timeout)
    THEN [st EXCEPT !.status = HALF_OPEN]
    ELSE st

\* wrapper entry: current_time = time.time(), then the open-circuit check
CbCall(t) ==
    /\ cbpc[t] = "idle"
    /\ LET call == [CallFresh EXCEPT !.current_time = now, !.entry = state]
       IN  IF FailFast(state, now, cfg)
           THEN /\ cbcall' = [cbcall EXCEPT ![t] = [call EXCEPT !.outcome = "circuit_open"]]
                /\ UNCHANGED <<state, cbpc>>
           ELSE /\ state' = Enter(state, now, cfg)
                /\ cbpc' = [cbpc EXCEPT ![t] = "in_func"]
                /\ cbcall' = [cbcall EXCEPT ![t] = [call EXCEPT !.invoked = TRUE]]
    /\ UNCHANGED <<cfg, now, retryVars, otherVars>>

\* the success branch: close a half-open circuit, record last_success
OnCallSuccess(st, current_time, c) ==
    LET closing == st.status = HALF_OPEN
                   /\ current_time - st.last_success > c.half_open_timeout
    IN  [st EXCEPT !.status = IF closing THEN CLOSED ELSE @,
                   !.failures = IF closing THEN 0 ELSE @,
                   !.last_success = current_time]

CbFuncReturns(t) ==
    /\ cbpc[t] = "in_func"
    /\ state' = OnCallSuccess(state, cbcall[t].current_time, cfg)
    /\ cbpc' = [cbpc EXCEPT ![t] = "idle"]
    /\ cbcall' = [cbcall EXCEPT ![t].func = "ok", ![t].outcome = "result"]
    /\ UNCHANGED <<cfg, now, retryVars, otherVars>>

\* faulty variant: > for >=
ThresholdExceeded(failures, failure_threshold) == failures > failure_threshold

\* state["failures"] >= failure_threshold
ThresholdReached(failures, failure_threshold) == failures >= failure_threshold

\* faulty variant: a failure in half-open does not reopen the circuit
OnCallFailureNoReopen(st, current_time, c) ==
    LET counted == [st EXCEPT !.failures = @ + 1, !.last_failure = current_time]
    IN  IF counted.status = CLOSED
           /\ ThresholdReached(counted.failures, c.failure_threshold)
        THEN [counted EXCEPT !.status = OPEN]
        ELSE counted

\* the except branch: count the failure, open a closed circuit at the
\* threshold, reopen a half-open one
OnCallFailure(st, current_time, c) ==
    LET counted == [st EXCEPT !.failures = @ + 1, !.last_failure = current_time]
        opened == IF counted.status = CLOSED
                     /\ ThresholdReached(counted.failures, c.failure_threshold)
                  THEN [counted EXCEPT !.status = OPEN]
                  ELSE counted
    IN  IF opened.status = HALF_OPEN THEN [opened EXCEPT !.status = OPEN] ELSE opened

CbFuncRaises(t) ==
    /\ cbpc[t] = "in_func"
    /\ state' = OnCallFailure(state, cbcall[t].current_time, cfg)
    /\ cbpc' = [cbpc EXCEPT ![t] = "idle"]
    /\ cbcall' = [cbcall EXCEPT ![t].func = "exc", ![t].outcome = "func_exception"]
    /\ UNCHANGED <<cfg, now, retryVars, otherVars>>

\* time passes
Tick ==
    /\ now < StartTime + MaxElapsed
    /\ now' = now + 1
    /\ UNCHANGED <<cfg, state, cbpc, cbcall, retryVars, otherVars>>

(***************************************************************************)
(* The other components at rest.  Each component is checked under a        *)
(* specification of its own; the variables of the others keep the values   *)
(* given here.                                                             *)
(***************************************************************************)
MaxRate == 2
MaxBurst == 2
RlMaxElapsed == 4

RECURSIVE Factorial(_)
Factorial(n) == IF n <= 1 THEN 1 ELSE n * Factorial(n - 1)

\* The rate limiter's clock counts ticks, RlSecond to the second, and its
\* bucket holds units, RlSecond to the token: every refill
\* time_since_last * calls_per_second and every wait_time the model can form
\* is then a whole number (calls_per_second divides RlSecond).
RlSecond == Factorial(MaxRate)

LimiterConfigs == [calls_per_second : 1..MaxRate, max_burst : 1..MaxBurst]

\* last_called = [0.0]; tokens = [max_burst]; entered counts the calls made
RlFresh(c) ==
    [tokens |-> c.max_burst * RlSecond, last_called |-> 0, entered |-> 0]

\* Locals of a caller and what its latest call did: n is the call's ordinal,
\* before and refilled the bucket as found and after the refill, consumed the
\* units taken from the bucket, invoked how often the function was called.
RlCallFresh ==
    [n |-> 0, current_time |-> 0, time_since_last |-> 0,
     before |-> 0, refilled |-> 0,
     wait_time |-> 0, consumed |-> 0, invoked |-> 0,
     func |-> "none", outcome |-> "none"]

LimiterIdle ==
    /\ rlcfg = [calls_per_second |-> 1, max_burst |-> 1]
    /\ rl = RlFresh(rlcfg)
    /\ rlpc = [t \in Callers |-> "idle"]
    /\ rlcall = [t \in Callers |-> RlCallFresh]

ClassifyIdle == cl = [error |-> Err("RetryableError", 0, "none", FALSE),
                      answer |-> "none"]

\* No remote call yet / a remote call that succeeded.
NoOutcome == Err("None", 0, "none", FALSE)
RemoteOk == Err("ok", 0, "none", FALSE)

\* The facade call in progress: the operation, how many remote calls it has
\* made, and how the remote call of the latest attempt ended (NoOutcome when
\* the attempt made none).
FacFresh == [op |-> "none", remote |-> 0, last |-> NoOutcome]

\* DriveCircuitBreaker.__init__; last_failure_time None is never read
DcbFresh == [state |-> "CLOSED", failure_count |-> 0, last_failure_time |-> 0]

FacadeIdle ==
    /\ fac = FacFresh
    /\ dcb = DcbFresh
    /\ dcbpc = [t \in Callers |-> "idle"]

\* an empty store and no operation on it
RunFresh ==
    [op |-> "none", service |-> "None", path |-> <<>>, overwrite |-> FALSE,
     pc |-> "idle", parent |-> "root", todo |-> <<>>, target |-> "None",
     log |-> <<>>, result |-> "None", entered |-> 0, before |-> "None",
     had |-> {}]

DriveIdle ==
    /\ drive = [folders |-> {}, files |-> {}]
    /\ run = RunFresh

OthersIdle == LimiterIdle /\ ClassifyIdle /\ FacadeIdle /\ DriveIdle

\* the breaker while another component is checked alone
BreakerIdle ==
    /\ cfg \in {c \in Configs : c.failure_threshold = 1 /\ c.reset_timeout = 0
                                /\ c.half_open_timeout = 0}
    /\ state = BreakerFresh
    /\ now = StartTime
    /\ cbpc = [t \in Callers |-> "idle"]
    /\ cbcall = [t \in Callers |-> CallFresh]

\* the retry decorator while another component is checked alone
RetryIdle ==
    /\ policy \in {p \in Policies : /\ p.max_retries = 0
                                    /\ p.initial_delay = 0
                                    /\ p.max_delay = Second
                                    /\ p.backoff_halves = 2
                                    /\ ~p.jitter
                                    /\ p.retryable_exceptions = None}
    /\ rt = RetryFresh

InitBreaker ==
    /\ cfg \in Configs
    /\ state = BreakerFresh
    /\ now = StartTime
    /\ cbpc = [t \in Callers |-> "idle"]
    /\ cbcall = [t \in Callers |-> CallFresh]
    /\ RetryIdle
    /\ OthersIdle

\* one caller at a time: caller 1 makes every call
NextBreaker == Tick \/ CbCall(1) \/ CbFuncReturns(1) \/ CbFuncRaises(1)

SpecBreaker == InitBreaker /\ [][NextBreaker]_vars

(***************************************************************************)
(* Properties of the circuit_breaker decorator, sequential callers.  call1 *)
(* is the latest call: the state dict it found on entry, its current_time, *)
(* and what became of it.                                                  *)
(***************************************************************************)
call1 == cbcall[1]

Returned1 == cbpc[1] = "idle" /\ call1.outcome # "none"

\* C6: a failing call that found the circuit CLOSED leaves it CLOSED while
\* the failure count stays below failure_threshold and OPEN when the count
\* reaches failure_threshold, and raises the function's own exception.
OpensAtThreshold ==
    (Returned1 /\ call1.func = "exc" /\ call1.entry.status = CLOSED)
       => /\ call1.outcome = "func_exception"
          /\ state.failures = call1.entry.failures + 1
          /\ state.failures <= cfg.failure_threshold
          /\ state.failures < cfg.failure_threshold => state.status = CLOSED
          /\ state.failures = cfg.failure_threshold => state.status = OPEN

OpensAtThresholdWitness ==
    /\ cfg.failure_threshold = 3
    /\ Returned1
    /\ call1.func = "exc"
    /\ call1.entry.status = CLOSED
    /\ call1.entry.failures = 2
    /\ state.status = OPEN

\* C7: a call that finds the circuit OPEN no more than reset_timeout after
\* last_failure raises the circuit-open error without invoking the function.
FailsFastWhileOpen ==
    (/\ call1.entry.status = OPEN
     /\ call1.current_time - call1.entry.last_failure <= cfg.reset_timeout)
       => /\ call1.outcome = "circuit_open"
          /\ ~call1.invoked
          /\ call1.func = "none"
          /\ cbpc[1] = "idle"

FailsFastWhileOpenWitness ==
    /\ cfg.reset_timeout = 2
    /\ call1.entry.status = OPEN
    /\ call1.current_time - call1.entry.last_failure = 2
    /\ call1.outcome = "circuit_open"

\* C8: the circuit goes from OPEN to HALF_OPEN only in the entry of a call
\* that arrives more than reset_timeout after last_failure, every such call
\* makes the transition and invokes the function, and the passing of time
\* alone leaves an OPEN circuit OPEN.
LazyHalfOpen ==
    [][/\ (state.status = OPEN /\ state'.status = HALF_OPEN)
            => /\ cbpc[1] = "idle" /\ cbpc'[1] = "in_func"
               /\ cbcall'[1].current_time = now
               /\ cbcall'[1].invoked
               /\ now - state.last_failure > cfg.reset_timeout
       /\ (/\ state.status = OPEN
           /\ cbpc[1] = "idle" /\ cbcall'[1] # cbcall[1]
           /\ now - state.last_failure > cfg.reset_timeout)
            => /\ state'.status = HALF_OPEN
               /\ cbpc'[1] = "in_func"
               /\ cbcall'[1].invoked
       /\ (state.status = OPEN /\ now' # now) => state'.status = OPEN
       /\ (state.status = OPEN /\ state'.status # OPEN) => state'.status = HALF_OPEN]_vars

LazyHalfOpenWitness ==
    /\ cfg.reset_timeout = 1
    /\ state.status = HALF_OPEN
    /\ cbpc[1] = "in_func"
    /\ call1.entry.status = OPEN
    /\ call1.current_time - call1.entry.last_failure = 3

\* C9: when the trial call (the call that found the circuit OPEN and made
\* it HALF_OPEN) succeeds, the circuit is CLOSED with a failure count of 0.
TrialSuccessCloses ==
    (Returned1 /\ call1.func = "ok" /\ call1.entry.status = OPEN)
       => state.status = CLOSED /\ state.failures = 0

\* C10: a call made in HALF_OPEN (the trial call, or a call that found the
\* circuit HALF_OPEN) that fails leaves the circuit OPEN with last_failure
\* set to the time of that call.
TrialFailureReopens ==
    (Returned1 /\ call1.func = "exc" /\ call1.entry.status \in {OPEN, HALF_OPEN})
       => /\ state.status = OPEN
          /\ state.last_failure = call1.current_time
          /\ call1.outcome = "func_exception"

TrialFailureReopensWitness ==
    /\ Returned1
    /\ call1.func = "exc"
    /\ call1.entry.status = OPEN
    /\ state.status = OPEN
    /\ state.last_failure > call1.entry.last_failure + cfg.reset_timeout
    /\ now > state.last_failure

\* C11: a successful call made while the circuit is CLOSED leaves the failure
\* count at 0, so only failures with no success in between add up to
\* failure_threshold.
SuccessWhileClosedResets ==
    (Returned1 /\ call1.func = "ok" /\ call1.entry.status = CLOSED)
       => state.failures = 0

(***************************************************************************)
(* Concurrent callers of one circuit breaker.  The wrapper takes no lock;  *)
(* the callers interleave between the wrapper's entry (lines 218-229) and  *)
(* the bookkeeping after the function (lines 234-262).                     *)
(***************************************************************************)
NextBreakerConc ==
    \/ Tick
    \/ \E t \in Callers : CbCall(t)
    \/ \E t \in Callers : CbFuncReturns(t)
    \/ \E t \in Callers : CbFuncRaises(t)

\* two callers: the smaller configurations keep the interleavings countable
ConcConfigs ==
    {c \in Configs : /\ c.failure_threshold <= 1
                     /\ c.reset_timeout <= 1
                     /\ c.half_open_timeout <= 1}

InitBreakerConc ==
    /\ cfg \in ConcConfigs
    /\ state = BreakerFresh
    /\ now = StartTime
    /\ cbpc = [t \in Callers |-> "idle"]
    /\ cbcall = [t \in Callers |-> CallFresh]
    /\ RetryIdle
    /\ OthersIdle

SpecBreakerConc == InitBreakerConc /\ [][NextBreakerConc]_vars

\* C12: while the trial call that moved the circuit from OPEN to HALF_OPEN is
\* still inside the wrapped function, no caller that found the circuit
\* HALF_OPEN is inside it too: one call only probes a half-open circuit.
SingleTrialCall ==
    \A t \in Callers :
        (cbpc[t] = "in_func" /\ cbcall[t].entry.status = HALF_OPEN)
           => \A u \in Callers \ {t} :
                  ~(cbpc[u] = "in_func" /\ cbcall[u].entry.status = OPEN)

InitRetry ==
    /\ policy \in Policies
    /\ rt = RetryFresh
    /\ BreakerIdle
    /\ OthersIdle

NextRetry == RetryCall \/ RetryAttemptReturns \/ RetryAttemptRaises

SpecRetry == InitRetry /\ [][NextRetry]_vars

(***************************************************************************)
(* Properties of the retry decorator                                       *)
(***************************************************************************)
RECURSIVE SumSeq(_)
SumSeq(s) == IF s = <<>> THEN 0 ELSE Head(s) + SumSeq(Tail(s))

Retryable(exc) == ShouldRetry(exc.err, policy.retryable_exceptions)

\* C1: the function is never invoked more than max_retries + 1 times in a
\* call; while the loop runs every attempt so far has failed and at most
\* max_retries attempts are used up; a call that ends with a retryable error
\* has invoked the function exactly max_retries + 1 times and raises the
\* exception of that last attempt.
RetryExhaustion ==
    /\ rt.calls <= policy.max_retries + 1
    /\ rt.pc = "running" => rt.calls = rt.retry_count /\ rt.calls <= policy.max_retries
    /\ (rt.pc = "raised" /\ Retryable(rt.raised))
          => /\ rt.calls = policy.max_retries + 1
             /\ rt.raised = rt.last_exception
             /\ rt.raised.at = rt.calls

RetryExhaustionWitness ==
    /\ policy.max_retries = 2
    /\ rt.pc = "raised"
    /\ Retryable(rt.raised)
    /\ rt.calls = 3

\* C2: a non-retryable failure propagates at once: the loop never goes on
\* after one, the exception raised is that of the latest attempt, and no
\* sleep follows the failing attempt (one sleep per earlier attempt only).
NonRetryablePropagates ==
    /\ (rt.pc = "running" /\ rt.calls > 0) => Retryable(rt.last_exception)
    /\ (rt.pc = "raised" /\ ~Retryable(rt.raised))
          => /\ rt.raised = rt.last_exception
             /\ rt.raised.at = rt.calls
             /\ Len(rt.sleeps) = rt.calls - 1

NonRetryableWitness ==
    /\ policy.max_retries = 3
    /\ rt.pc = "raised"
    /\ ~Retryable(rt.raised)
    /\ rt.calls = 1
    /\ rt.sleeps = <<>>

\* C3: a call that returns returns the result of its latest attempt, after
\* exactly one sleep per failed attempt, and the function is not invoked
\* again in that call.
SuccessAfterRetries ==
    [][rt.pc = "returned"
         => /\ rt.result.at = rt.calls
            /\ Len(rt.sleeps) = rt.calls - 1
            /\ rt.calls <= policy.max_retries + 1
            /\ (rt'.pc = "returned" => rt'.calls = rt.calls)
            /\ (rt'.pc # "returned" => rt'.pc = "running" /\ rt'.calls = 0)]_vars

SuccessAfterRetriesWitness ==
    /\ policy.max_retries = 3
    /\ rt.pc = "returned"
    /\ rt.calls = 3
    /\ Len(rt.sleeps) = 2

\* C4: without jitter the k-th sleep is d_k = min(max_delay, d_{k-1} *
\* backoff_factor), d_0 = initial_delay; 2.0 s then 4.0 s for initial_delay
\* 1.0, backoff_factor 2.0 and max_delay 4.0.
RECURSIVE ExpectedDelay(_)
ExpectedDelay(k) ==
    IF k = 0 THEN policy.initial_delay
    ELSE Min(policy.max_delay, (ExpectedDelay(k - 1) * policy.backoff_halves) \div 2)

TestPolicy ==
    /\ ~policy.jitter
    /\ policy.initial_delay = Second
    /\ policy.backoff_halves = 4
    /\ policy.max_delay = 4 * Second

BackoffDelays ==
    /\ ~policy.jitter
          => \A k \in 1..Len(rt.sleeps) : rt.sleeps[k] = ExpectedDelay(k)
    /\ (TestPolicy /\ Len(rt.sleeps) >= 1) => rt.sleeps[1] = 2 * Second
    /\ (TestPolicy /\ Len(rt.sleeps) >= 2) => rt.sleeps[2] = 4 * Second

BackoffDelaysWitness ==
    /\ TestPolicy
    /\ policy.max_retries = 2
    /\ rt.pc = "returned"
    /\ rt.sleeps = <<2 * Second, 4 * Second>>

\* C5: every sleep is at most max_delay, there are at most max_retries of
\* them in a call, and so they add up to at most max_retries * max_delay.
WaitBound ==
    /\ \A k \in 1..Len(rt.sleeps) : rt.sleeps[k] <= policy.max_delay
    /\ Len(rt.sleeps) <= policy.max_retries
    /\ SumSeq(rt.sleeps) <= policy.max_retries * policy.max_delay

WaitBoundWitness ==
    /\ policy.jitter
    /\ policy.max_retries = 3
    /\ Len(rt.sleeps) = 3
    /\ rt.sleeps[1] < policy.max_delay
    /\ rt.sleeps[3] = policy.max_delay

(***************************************************************************)
(* rate_limit decorator                                                    *)
(*                                                                         *)
(* A call runs in steps: RlEnter reads the clock, refills the bucket and   *)
(* tests it (lines 173-182); a call that found less than one token sleeps  *)
(* and RlWake is the return of time.sleep (lines 184-185); RlConsume takes *)
(* the token, stamps last_called and invokes the function (lines 188-191); *)
(* the function then returns or raises.                                    *)
(***************************************************************************)
breakerOnly == <<cfg, state, cbpc, cbcall>>

\* faulty variant: the refill is not capped at max_burst
RefillUncapped(tokens, last_called, current_time, c) ==
    tokens + (current_time - last_called) * c.calls_per_second

\* tokens[0] = min(max_burst, tokens[0] + time_since_last * calls_per_second)
Refill(tokens, last_called, current_time, c) ==
    Min(c.max_burst * RlSecond,
        tokens + (current_time - last_called) * c.calls_per_second)

\* faulty variant: multiplies by the rate
WaitTimeTimesRate(tokens, c) == (RlSecond - tokens) * c.calls_per_second

\* wait_time = (1.0 - tokens[0]) / calls_per_second, in ticks
WaitTime(tokens, c) == (RlSecond - tokens) \div c.calls_per_second

\* faulty variant: the call empties the bucket
ConsumeAll(tokens) == 0

\* tokens[0] -= 1.0
Consume(tokens) == tokens - RlSecond

\* A call starts only while the clock leaves room for its sleep.
RlHorizon == StartTime + RlMaxElapsed

RlEnter(t) ==
    /\ rlpc[t] = "idle"
    /\ now <= RlHorizon
    /\ LET refilled == Refill(rl.tokens, rl.last_called, now, rlcfg)
           short == refilled < RlSecond
           call == [RlCallFresh EXCEPT !.n = rl.entered + 1,
                                       !.current_time = now,
                                       !.time_since_last = now - rl.last_called,
                                       !.before = rl.tokens,
                                       !.refilled = refilled]
       IN  /\ rl' = [rl EXCEPT !.tokens = refilled, !.entered = @ + 1]
           /\ rlpc' = [rlpc EXCEPT ![t] = IF short THEN "sleeping" ELSE "consume"]
           /\ rlcall' = [rlcall EXCEPT ![t] =
                  IF short THEN [call EXCEPT !.wait_time = WaitTime(refilled, rlcfg)]
                           ELSE call]
    /\ UNCHANGED <<rlcfg, now, retryVars, breakerOnly, classifyVars, driveVars, facadeVars>>

\* time.sleep(wait_time) returns; tokens[0] = 1.0
RlWake(t) ==
    /\ rlpc[t] = "sleeping"
    /\ now >= rlcall[t].current_time + rlcall[t].wait_time
    /\ rl' = [rl EXCEPT !.tokens = RlSecond]
    /\ rlpc' = [rlpc EXCEPT ![t] = "consume"]
    /\ UNCHANGED <<rlcfg, rlcall, now, retryVars, breakerOnly, classifyVars, driveVars,
                   facadeVars>>

RlConsume(t) ==
    /\ rlpc[t] = "consume"
    /\ rl' = [rl EXCEPT !.tokens = Consume(@), !.last_called = now]
    /\ rlpc' = [rlpc EXCEPT ![t] = "in_func"]
    /\ rlcall' = [rlcall EXCEPT ![t].consumed = @ + rl.tokens - Consume(rl.tokens),
                                ![t].invoked = @ + 1]
    /\ UNCHANGED <<rlcfg, now, retryVars, breakerOnly, classifyVars, driveVars, facadeVars>>

RlFuncReturns(t) ==
    /\ rlpc[t] = "in_func"
    /\ rlpc' = [rlpc EXCEPT ![t] = "idle"]
    /\ rlcall' = [rlcall EXCEPT ![t].func = "ok", ![t].outcome = "result"]
    /\ UNCHANGED <<rlcfg, rl, now, retryVars, breakerOnly, classifyVars, driveVars,
                   facadeVars>>

RlFuncRaises(t) ==
    /\ rlpc[t] = "in_func"
    /\ rlpc' = [rlpc EXCEPT ![t] = "idle"]
    /\ rlcall' = [rlcall EXCEPT ![t].func = "exc", ![t].outcome = "func_exception"]
    /\ UNCHANGED <<rlcfg, rl, now, retryVars, breakerOnly, classifyVars, driveVars,
                   facadeVars>>

\* time passes, one tick at a time
RlTick ==
    /\ now < RlHorizon + RlSecond
    /\ now' = now + 1
    /\ UNCHANGED <<limiterVars, retryVars, breakerOnly, classifyVars, driveVars, facadeVars>>

InitLimiter ==
    /\ rlcfg \in LimiterConfigs
    /\ rl = RlFresh(rlcfg)
    /\ rlpc = [t \in Callers |-> "idle"]
    /\ rlcall = [t \in Callers |-> RlCallFresh]
    /\ RetryIdle
    /\ BreakerIdle
    /\ ClassifyIdle
    /\ FacadeIdle
    /\ DriveIdle

\* one caller at a time: caller 1 makes every call
NextLimiter ==
    \/ RlTick
    \/ RlEnter(1)
    \/ RlWake(1)
    \/ RlConsume(1)
    \/ RlFuncReturns(1)
    \/ RlFuncRaises(1)

SpecLimiter == InitLimiter /\ [][NextLimiter]_vars

\* time.sleep returns, the wrapper goes on and the clock advances
SpecLimiterFair ==
    /\ SpecLimiter
    /\ WF_vars(RlTick)
    /\ WF_vars(RlWake(1))
    /\ WF_vars(RlConsume(1))

\* callers interleaved between the steps of the wrapper, which takes no lock
NextLimiterConc ==
    \/ RlTick
    \/ \E t \in Callers : RlEnter(t)
    \/ \E t \in Callers : RlWake(t)
    \/ \E t \in Callers : RlConsume(t)
    \/ \E t \in Callers : RlFuncReturns(t)
    \/ \E t \in Callers : RlFuncRaises(t)

SpecLimiterConc == InitLimiter /\ [][NextLimiterConc]_vars

(***************************************************************************)
(* Properties of the rate limiter                                          *)
(***************************************************************************)
rcall1 == rlcall[1]

\* C13: from the full bucket the limiter starts with, calls made at one
\* instant: the first max_burst of them do not sleep, and the next one sleeps
\* (1 - 0) / calls_per_second = 1 / calls_per_second before it invokes the
\* function.
BurstThenWait ==
    (rcall1.n >= 1 /\ rcall1.current_time = StartTime)
       => /\ rcall1.n <= rlcfg.max_burst
                => rcall1.wait_time = 0 /\ rlpc[1] # "sleeping"
          /\ rcall1.n = rlcfg.max_burst + 1
                => /\ rcall1.wait_time * rlcfg.calls_per_second = RlSecond
                   /\ rcall1.invoked = 0 => rlpc[1] \in {"sleeping", "consume"}
                   /\ rlpc[1] # "sleeping"
                         => now >= rcall1.current_time + rcall1.wait_time

\* calls_per_second = 2, max_burst = 2: the third call has slept 0.5 s
BurstThenWaitWitness ==
    /\ rlcfg = [calls_per_second |-> 2, max_burst |-> 2]
    /\ rcall1.n = 3
    /\ rcall1.current_time = StartTime
    /\ rcall1.wait_time * 2 = RlSecond
    /\ rlpc[1] = "in_func"
    /\ now = StartTime + rcall1.wait_time

\* C14: with one caller at a time the bucket holds between 0 and max_burst
\* tokens in every state.
TokensInRange ==
    /\ 0 <= rl.tokens
    /\ rl.tokens <= rlcfg.max_burst * RlSecond

\* a call after a pause long enough to overfill the bucket, whose function
\* failed; and the bucket drained by it
TokensInRangeWitness ==
    /\ rcall1.n >= 2
    /\ rcall1.before + rcall1.time_since_last * rlcfg.calls_per_second
          > rlcfg.max_burst * RlSecond
    /\ rcall1.refilled = rlcfg.max_burst * RlSecond
    /\ rcall1.func = "exc"
    /\ rl.tokens = 0

\* C15: callers sharing the bucket never drive tokens below 0, and of the
\* calls made at the instant the bucket is full only max_burst proceed
\* without sleeping.
BucketAtomic ==
    /\ rl.tokens >= 0
    /\ \A t \in Callers :
          (rlcall[t].current_time = StartTime /\ rlcall[t].n > rlcfg.max_burst)
             => rlcall[t].wait_time > 0

\* C16: a call is delayed, not dropped: a sleeping call goes on to invoke the
\* function; every call invokes it exactly once, takes exactly one token from
\* the bucket whether the function returns or raises, and hands on what the
\* function did.
DelayedNotDropped ==
    /\ [](rlpc[1] = "in_func"
             => rcall1.invoked = 1 /\ rcall1.consumed = RlSecond)
    /\ []((rlpc[1] = "idle" /\ rcall1.n >= 1)
             => /\ rcall1.invoked = 1
                /\ rcall1.consumed = RlSecond
                /\ rcall1.func = "ok" => rcall1.outcome = "result"
                /\ rcall1.func = "exc" => rcall1.outcome = "func_exception"
                /\ rcall1.func \in {"ok", "exc"})
    /\ (rlpc[1] = "sleeping") ~> (rlpc[1] = "in_func")

DelayedNotDroppedWitness ==
    /\ rlpc[1] = "idle"
    /\ rcall1.wait_time > 0
    /\ rcall1.invoked = 1
    /\ rcall1.consumed = RlSecond
    /\ rcall1.func = "exc"
    /\ rcall1.outcome = "func_exception"

(***************************************************************************)
(* is_retryable_error on its own: an exception is drawn and classified.    *)
(***************************************************************************)
HttpStatuses == {400, 401, 403, 404, 429, 500, 502, 503, 504}
HttpBodies == {"empty", "plain", "transient", "undecodable"}

ClErrors ==
    {Err("HttpError", st, b, kw) :
        st \in HttpStatuses, b \in HttpBodies, kw \in BOOLEAN}
    \cup {Err(ty, 0, "none", kw) :
        ty \in {"RetryableError", "ValueError", "OSError"}, kw \in BOOLEAN}

InitClassify ==
    /\ cl \in [error : ClErrors, answer : {"none"}]
    /\ RetryIdle
    /\ BreakerIdle
    /\ LimiterIdle
    /\ FacadeIdle
    /\ DriveIdle

Classify ==
    /\ cl.answer = "none"
    /\ cl' = [cl EXCEPT !.answer = ClassifierOutcome(cl.error)]
    /\ UNCHANGED <<retryVars, breakerVars, limiterVars, facadeVars, driveVars>>

NextClassify == Classify

SpecClassify == InitClassify /\ [][NextClassify]_vars

\* C17: an HttpError with status 429, 500, 502, 503 or 504 is classified
\* retryable whatever its body and its message.
RetryableStatusIsRetryable ==
    (/\ cl.answer # "none"
     /\ cl.error.type = "HttpError"
     /\ cl.error.status \in {429, 500, 502, 503, 504})
       => cl.answer = "true"

RetryableStatusWitness ==
    /\ cl.answer = "true"
    /\ cl.error = Err("HttpError", 429, "undecodable", FALSE)

\* the error matches none of the classifier's rules
NoRuleMatches(e) ==
    /\ ~(e.type = "HttpError" /\ e.status \in {429, 500, 502, 503, 504})
    /\ ~(e.type = "HttpError" /\ e.body = "transient")
    /\ e.type # "RetryableError"
    /\ ~e.kw

\* C18: is_retryable_error never raises; an HttpError with an undecodable
\* body gets the answer of the same error with no body text (false when the
\* status is not retryable and the message has no connectivity keyword); an
\* error that matches no rule is not retryable.
ClassifyNeverRaises ==
    cl.answer # "none"
       => /\ cl.answer \in {"true", "false"}
          /\ (cl.error.type = "HttpError" /\ cl.error.body = "undecodable")
                => /\ cl.answer
                        = ClassifierOutcome([cl.error EXCEPT !.body = "empty"])
                   /\ (cl.error.status \notin {429, 500, 502, 503, 504}
                       /\ ~cl.error.kw) => cl.answer = "false"
          /\ NoRuleMatches(cl.error) => cl.answer = "false"

ClassifyNeverRaisesWitness ==
    /\ cl.answer = "false"
    /\ cl.error = Err("HttpError", 403, "undecodable", FALSE)

(***************************************************************************)
(* The facade of google_drive_utils.py: operations on the remote store     *)
(* wrapped in the resilience decorators.  One facade call is a call of the *)
(* retry wrapper; each attempt of its loop runs the layers inside it at    *)
(* one reading of the clock: the circuit_breaker decorator (upload only),  *)
(* handle_drive_operations with the global DriveCircuitBreaker (where      *)
(* applied), the operation's own except clauses, and the remote call.      *)
(* rate_limit only delays a call, so it is left out here.  The clock       *)
(* counts units of 30 s: reset_timeout 60.0 is 2, half_open_timeout 30.0   *)
(* is 1, recovery_timeout 60 is 2.                                         *)
(***************************************************************************)
FacadeMaxElapsed == 3

MAX_RETRIES == 3
INITIAL_RETRY_DELAY == 1
MAX_RETRY_DELAY == 15

\* @retry(max_retries=MAX_RETRIES, initial_delay=INITIAL_RETRY_DELAY,
\*        max_delay=MAX_RETRY_DELAY); backoff_factor 2.0 and jitter by default
FacadePolicy ==
    [max_retries |-> MAX_RETRIES,
     initial_delay |-> INITIAL_RETRY_DELAY * Second,
     max_delay |-> MAX_RETRY_DELAY * Second,
     backoff_halves |-> 4,
     jitter |-> TRUE,
     retryable_exceptions |-> None]

\* @circuit_breaker(failure_threshold=5, reset_timeout=60.0)
UploadBreaker ==
    [failure_threshold |-> 5, reset_timeout |-> 2, half_open_timeout |-> 1]

\* DriveCircuitBreaker(): failure_threshold 5, recovery_timeout 60
DcbConfig == [failure_threshold |-> 5, recovery_timeout |-> 2]

\* retry(rate_limit(op))
RateLimitedOps ==
    {"find_folder_id", "create_folder", "find_file_id",
     "delete_file_by_id", "delete_folder_by_id"}

\* retry(handle_drive_operations(op)), retry(circuit_breaker(handle_...(op)))
HdoOps == {"authenticate_google_drive", "upload_file_to_drive"}
BreakerOps == {"upload_file_to_drive"}

FacadeOps == RateLimitedOps \cup HdoOps

\* How a remote call can fail: an HttpError of some status, with a body that
\* is plain, names the quota, or holds one of RETRYABLE_GOOGLE_ERRORS, and a
\* message with or without a connectivity keyword.
RemoteErrors ==
    {Err("HttpError", st, "plain", FALSE) : st \in {401, 403, 404, 503}}
    \cup {Err("HttpError", 403, "transient", FALSE),
          Err("HttpError", 403, "quota", FALSE),
          Err("HttpError", 401, "plain", TRUE),
          Err("HttpError", 503, "plain", TRUE)}

DeleteOps == {"delete_file_by_id", "delete_folder_by_id"}

\* faulty variant: the delete operations raise on 404
OpReturnsOnPermissionOnly(op, e) ==
    CASE op = "authenticate_google_drive" -> e.status \in {401, 403}
      [] op \in DeleteOps -> e.status = 403
      [] OTHER -> FALSE

\* The operation's own except HttpError clause: TRUE when the operation
\* returns a value (None, True or False) instead of raising.
OpReturnsOn(op, e) ==
    CASE op = "authenticate_google_drive" -> e.status \in {401, 403}
      [] op \in DeleteOps -> e.status \in {404, 403}
      [] OTHER -> FALSE

\* the value the operation returns when its remote call ended with out
OpValue(op, out) ==
    CASE op \in DeleteOps -> IF out = RemoteOk \/ out.status = 404
                             THEN "True" ELSE "False"
      [] op = "authenticate_google_drive" ->
            IF out = RemoteOk THEN "service" ELSE "None"
      [] OTHER -> "success"

\* "quota" in str(http_error).lower()
QuotaInText(e) == e.body = "quota"

\* faulty variant: the quota rule is missing
ConvertHttpErrorNoQuota(e) ==
    LET type == CASE e.status = 401 -> "DriveAuthenticationError"
                  [] e.status = 429 -> "DriveRateLimitError"
                  [] e.status = 404 -> "DriveFileError"
                  [] OTHER -> "DriveAPIError"
    IN  Err(type, 0, "none", e.kw)

\* _convert_http_error: the message of the new exception embeds
\* str(http_error), so a connectivity keyword in it is kept; the prefixes and
\* the operation names hold none.
ConvertHttpError(e) ==
    LET type == CASE e.status = 401 -> "DriveAuthenticationError"
                  [] e.status = 429 -> "DriveRateLimitError"
                  [] e.status = 403 /\ QuotaInText(e) -> "DriveQuotaError"
                  [] e.status = 404 -> "DriveFileError"
                  [] OTHER -> "DriveAPIError"
    IN  Err(type, 0, "none", e.kw)

\* DriveCircuitBreaker.call: the OPEN check
DcbFailFast(d, t) ==
    /\ d.state = "OPEN"
    /\ ~(t - d.last_failure_time > DcbConfig.recovery_timeout)

DcbEnter(d) == IF d.state = "OPEN" THEN [d EXCEPT !.state = "HALF_OPEN"] ELSE d

\* _on_success
DcbOnSuccess(d) == [d EXCEPT !.failure_count = 0, !.state = "CLOSED"]

\* _on_failure
DcbOnFailure(d, t) ==
    [d EXCEPT !.failure_count = @ + 1,
              !.last_failure_time = t,
              !.state = IF d.failure_count + 1 >= DcbConfig.failure_threshold
                        THEN "OPEN" ELSE @]

\* handle_drive_operations around the operation: the breaker's state after
\* the attempt, whether the remote call was made, and the exception that
\* leaves the wrapper (NoOutcome when it returns).
HdoAttempt(op, d, t, out) ==
    IF DcbFailFast(d, t)
    THEN [dcb |-> d, remote |-> FALSE,
          exc |-> Err("DriveOperationError", 0, "none", FALSE)]
    ELSE IF out = RemoteOk \/ OpReturnsOn(op, out)
         THEN [dcb |-> DcbOnSuccess(DcbEnter(d)), remote |-> TRUE,
               exc |-> NoOutcome]
         ELSE [dcb |-> DcbOnFailure(DcbEnter(d), t), remote |-> TRUE,
               exc |-> ConvertHttpError(out)]

\* the operation with no handle_drive_operations around it
PlainAttempt(op, d, out) ==
    [dcb |-> d, remote |-> TRUE,
     exc |-> IF out = RemoteOk \/ OpReturnsOn(op, out) THEN NoOutcome ELSE out]

\* What the retry wrapper calls: the layers between it and the operation.
Attempt(op, st, d, t, out) ==
    LET inner == IF op \in HdoOps THEN HdoAttempt(op, d, t, out)
                 ELSE PlainAttempt(op, d, out)
    IN  IF op \notin BreakerOps
        THEN [state |-> st, dcb |-> inner.dcb, remote |-> inner.remote,
              exc |-> inner.exc]
        ELSE IF FailFast(st, t, UploadBreaker)
        THEN [state |-> st, dcb |-> d, remote |-> FALSE,
              exc |-> Err("RetryableError", 0, "none", FALSE)]
        ELSE [state |-> IF inner.exc = NoOutcome
                        THEN OnCallSuccess(Enter(st, t, UploadBreaker), t,
                                           UploadBreaker)
                        ELSE OnCallFailure(Enter(st, t, UploadBreaker), t,
                                           UploadBreaker),
              dcb |-> inner.dcb, remote |-> inner.remote, exc |-> inner.exc]

\* a facade operation is called: the retry wrapper starts its loop
FacadeCall ==
    /\ rt.pc \in {"ready", "returned", "raised"}
    /\ \E op \in FacadeOps : fac' = [FacFresh EXCEPT !.op = op]
    /\ rt' = [RetryFresh EXCEPT !.pc = "running", !.delay = policy.initial_delay]
    /\ UNCHANGED <<policy, breakerVars, limiterVars, classifyVars, driveVars, dcb, dcbpc>>

\* The delays of the retry loop are not kept here: whether the loop goes on
\* does not depend on them (lines 119-128), and the clock advances on its own.
ForgetDelays(r) == [r EXCEPT !.delay = policy.initial_delay, !.sleeps = <<>>]

\* one iteration of the retry loop
FacadeAttempt ==
    /\ rt.pc = "running"
    /\ \E out \in {RemoteOk} \cup RemoteErrors :
          LET a == Attempt(fac.op, state, dcb, now, out)
          IN  /\ state' = a.state
              /\ dcb' = a.dcb
              /\ fac' = IF a.remote
                        THEN [fac EXCEPT !.remote = @ + 1, !.last = out]
                        ELSE [fac EXCEPT !.last = NoOutcome]
              /\ rt' = IF a.exc = NoOutcome
                       THEN [OnSuccess(rt) EXCEPT !.result.val = OpValue(fac.op, out)]
                       ELSE ForgetDelays(OnFailure(rt, a.exc, policy, 0))
    /\ UNCHANGED <<policy, cfg, now, cbpc, cbcall, limiterVars, classifyVars, driveVars,
                   dcbpc>>

\* reset_circuit_breaker(), between two facade calls: the global name is bound
\* to a new DriveCircuitBreaker; nothing else is written
ResetCircuitBreaker ==
    /\ rt.pc \in {"ready", "returned", "raised"}
    /\ dcb' = DcbFresh
    /\ UNCHANGED <<retryVars, breakerVars, limiterVars, classifyVars, driveVars, fac, dcbpc>>

\* time passes
FacadeTick ==
    /\ now < StartTime + FacadeMaxElapsed
    /\ now' = now + 1
    /\ UNCHANGED <<policy, rt, breakerOnly, limiterVars, classifyVars, driveVars,
                   facadeVars>>

InitFacade ==
    /\ policy = FacadePolicy
    /\ rt = RetryFresh
    /\ cfg = UploadBreaker
    /\ state = BreakerFresh
    /\ now = StartTime
    /\ cbpc = [t \in Callers |-> "idle"]
    /\ cbcall = [t \in Callers |-> CallFresh]
    /\ fac = FacFresh
    /\ dcb = DcbFresh
    /\ dcbpc = [t \in Callers |-> "idle"]
    /\ LimiterIdle
    /\ ClassifyIdle
    /\ DriveIdle

NextFacade == FacadeTick \/ FacadeCall \/ FacadeAttempt \/ ResetCircuitBreaker

SpecFacade == InitFacade /\ [][NextFacade]_vars

(***************************************************************************)
(* Properties of the facade                                                *)
(***************************************************************************)
\* the remote call of the latest attempt failed with status 401 or 403
AuthFailure == fac.last.type = "HttpError" /\ fac.last.status \in {401, 403}

\* C19: a remote failure with status 401 or 403 is never retried, whatever
\* its body and message hold: the attempt that met it is the last attempt of
\* the facade call.
AuthFailureNeverRetried == AuthFailure => rt.pc # "running"

\* C19, amended: a remote failure with status 401 or 403 whose body holds no
\* token of RETRYABLE_GOOGLE_ERRORS and whose message holds no connectivity
\* keyword is never retried: the attempt that met it is the last attempt of
\* the facade call, the only one when it is the first failure.
PlainAuthFailureNotRetried ==
    (AuthFailure /\ fac.last.body # "transient" /\ ~fac.last.kw)
       => /\ rt.pc \in {"returned", "raised"}
          /\ rt.retry_count = 0 => fac.remote = 1

PlainAuthFailureWitness ==
    /\ fac.op = "upload_file_to_drive"
    /\ fac.last = Err("HttpError", 401, "plain", FALSE)
    /\ rt.pc = "raised"
    /\ rt.raised.err.type = "DriveAuthenticationError"
    /\ fac.remote = 1

\* C20: an operation under handle_drive_operations whose remote call fails
\* with a retryable status is attempted again: a facade call that ends with
\* such a failure has made max_retries + 1 attempts.
TransientAbsorbed ==
    (/\ fac.op \in HdoOps
     /\ rt.pc = "raised"
     /\ fac.last.type = "HttpError"
     /\ fac.last.status \in {429, 500, 502, 503, 504})
       => rt.calls = MAX_RETRIES + 1

\* the latest attempt of the facade call was rejected by a circuit breaker:
\* it raised without making the remote call
ShortCircuited == rt.calls > 0 /\ fac.last = NoOutcome /\ rt.pc # "returned"

\* C21: the error of a circuit breaker that short-circuits a facade call is
\* retryable for is_retryable_error, so the retry wrapper goes on: a call
\* that ends on a rejection has made max_retries + 1 attempts.
RejectionIsRetried ==
    ShortCircuited => /\ is_retryable_error(rt.last_exception.err)
                      /\ rt.pc = "raised" => rt.calls = MAX_RETRIES + 1

\* C22: one call of upload_file_to_drive raises the failures counter of its
\* circuit_breaker at most once: after an attempt of the call has made the
\* remote call and failed, no later attempt of the same call raises it.
OneOutcomePerCall ==
    [][(/\ fac.op = "upload_file_to_drive"
        /\ rt.pc = "running"
        /\ fac.remote >= 1) => state'.failures <= state.failures]_vars

\* C23: an attempt of an operation other than upload_file_to_drive leaves
\* every breaker that upload_file_to_drive goes through as it was.
ForeignFailuresLeaveBreaker ==
    [][(rt.pc = "running" /\ fac.op # "upload_file_to_drive")
          => (dcb' = dcb /\ state' = state)]_vars

\* C25: reset_circuit_breaker() leaves every circuit breaker that guards a
\* facade operation CLOSED with no failure counted: the DriveCircuitBreaker
\* and the circuit_breaker state of upload_file_to_drive.
ResetClosesEveryBreaker ==
    [][ResetCircuitBreaker
         => /\ dcb'.state = "CLOSED" /\ dcb'.failure_count = 0
            /\ state'.status = CLOSED /\ state'.failures = 0]_vars

(***************************************************************************)
(* DriveCircuitBreaker shared by concurrent callers                        *)
(*                                                                         *)
(* call() takes no lock.  A caller is either outside call() or inside the  *)
(* protected function; the OPEN check with its transition, _on_success and *)
(* _on_failure are each taken as one step.                                 *)
(***************************************************************************)
\* call(): the OPEN check; a rejected caller raises and is outside again
DcbCall(t) ==
    /\ dcbpc[t] = "idle"
    /\ ~DcbFailFast(dcb, now)
    /\ dcb' = DcbEnter(dcb)
    /\ dcbpc' = [dcbpc EXCEPT ![t] = "func"]
    /\ UNCHANGED <<retryVars, breakerVars, limiterVars, classifyVars, driveVars, fac>>

DcbRejected(t) ==
    /\ dcbpc[t] = "idle"
    /\ DcbFailFast(dcb, now)
    /\ dcbpc' = [dcbpc EXCEPT ![t] = "rejected"]
    /\ UNCHANGED <<retryVars, breakerVars, limiterVars, classifyVars, driveVars, fac, dcb>>

\* the caller of call() goes on after the exception or the result
DcbLeave(t) ==
    /\ dcbpc[t] \in {"rejected", "done"}
    /\ dcbpc' = [dcbpc EXCEPT ![t] = "idle"]
    /\ UNCHANGED <<retryVars, breakerVars, limiterVars, classifyVars, driveVars, fac, dcb>>

\* func returns: self._on_success()
DcbFuncReturns(t) ==
    /\ dcbpc[t] = "func"
    /\ dcb' = DcbOnSuccess(dcb)
    /\ dcbpc' = [dcbpc EXCEPT ![t] = "done"]
    /\ UNCHANGED <<retryVars, breakerVars, limiterVars, classifyVars, driveVars, fac>>

\* func raises: self._on_failure(); raise e
DcbFuncRaises(t) ==
    /\ dcbpc[t] = "func"
    /\ dcb' = DcbOnFailure(dcb, now)
    /\ dcbpc' = [dcbpc EXCEPT ![t] = "done"]
    /\ UNCHANGED <<retryVars, breakerVars, limiterVars, classifyVars, driveVars, fac>>

InitDcbConc ==
    /\ InitFacade

NextDcbConc ==
    \/ FacadeTick
    \/ \E t \in Callers : DcbCall(t)
    \/ \E t \in Callers : DcbRejected(t)
    \/ \E t \in Callers : DcbLeave(t)
    \/ \E t \in Callers : DcbFuncReturns(t)
    \/ \E t \in Callers : DcbFuncRaises(t)

SpecDcbConc == InitDcbConc /\ [][NextDcbConc]_vars

DcbTransitions ==
    {<<"CLOSED", "OPEN">>, <<"OPEN", "HALF_OPEN">>, <<"HALF_OPEN", "CLOSED">>,
     <<"HALF_OPEN", "OPEN">>}

\* C24: in every interleaving of concurrent callers the state of the
\* DriveCircuitBreaker changes only along CLOSED->OPEN, OPEN->HALF_OPEN,
\* HALF_OPEN->CLOSED and HALF_OPEN->OPEN, never from OPEN to CLOSED.
DcbLegalTransitions ==
    [][dcb'.state # dcb.state => <<dcb.state, dcb'.state>> \in DcbTransitions]_vars

(***************************************************************************)
(* The allowlist of retry                                                  *)
(***************************************************************************)
\* the exception is an instance of a type of the allowlist
InAllowlist(e, retryable_exceptions) ==
    \E exc_type \in retryable_exceptions : IsInstance(e, exc_type)

\* C30: when a retryable_exceptions list is supplied, membership in it is
\* the only test: an exception that is in the list is retried while retries
\* are left, whatever is_retryable_error says of it, and one that is not in
\* the list ends the call at once.
AllowlistIsOnlyTest ==
    (policy.retryable_exceptions # None /\ rt.last_exception # NoException)
       => IF InAllowlist(rt.last_exception.err, policy.retryable_exceptions)
          THEN rt.last_exception.at <= policy.max_retries => rt.pc # "raised"
          ELSE rt.pc = "raised" /\ rt.raised = rt.last_exception

(***************************************************************************)
(* Deleting what is not there                                              *)
(***************************************************************************)
\* C26: a delete operation whose remote request fails with status 404
\* returns True from the attempt that met the 404, without a retry and
\* without an exception; it is the only remote attempt when nothing failed
\* before it.  A delete whose request succeeded returns True as well, so a
\* second delete of the same ID, which meets the 404, succeeds like the first.
DeleteMissingSucceeds ==
    (fac.op \in DeleteOps /\ (fac.last = RemoteOk \/ fac.last.status = 404))
       => /\ rt.pc = "returned"
          /\ rt.result = [val |-> "True", at |-> rt.calls]
          /\ rt.raised = NoException
          /\ rt.retry_count = 0 => fac.remote = 1

DeleteMissingWitness ==
    /\ fac.op = "delete_folder_by_id"
    /\ fac.last = Err("HttpError", 404, "plain", FALSE)
    /\ rt.pc = "returned"
    /\ rt.result.val = "True"
    /\ fac.remote = 1

(***************************************************************************)
(* Folder paths                                                            *)
(*                                                                         *)
(* create_folder_if_not_exists and get_folder_id_by_path walk a path over  *)
(* the remote store.  A path is a string over Chars; a folder name is the  *)
(* segment between two '/'.  The leaf operations find_folder_id and        *)
(* create_folder are one step each: the retries of their own retry         *)
(* wrapper repeat the same request, a request that fails changes nothing   *)
(* in the store, and the store answers a lookup with several matches by    *)
(* the same first match every time.                                        *)
(***************************************************************************)
MaxPathLen == 3
MaxFolders == 3
Chars == {"/", "a"}
Paths == UNION {[1..n -> Chars] : n \in 0..MaxPathLen}
IdPool == <<"f1", "f2", "f3", "f4", "f5">>
Ids == {IdPool[i] : i \in 1..Min(MaxFolders, Len(IdPool))}
Services == {"service", "None"}

RECURSIVE LStrip(_)
LStrip(path) ==
    IF path # <<>> /\ Head(path) = "/" THEN LStrip(Tail(path)) ELSE path

RECURSIVE RStrip(_)
RStrip(path) ==
    IF path # <<>> /\ path[Len(path)] = "/"
    THEN RStrip(SubSeq(path, 1, Len(path) - 1)) ELSE path

\* folder_path.strip("/")
Strip(path) == RStrip(LStrip(path))

\* str.split("/"): the pieces between the separators, empty ones included
RECURSIVE Split(_)
Split(path) ==
    IF \A i \in 1..Len(path) : path[i] # "/" THEN <<path>>
    ELSE LET i == CHOOSE k \in 1..Len(path) :
                      path[k] = "/" /\ \A j \in 1..(k - 1) : path[j] # "/"
         IN  <<SubSeq(path, 1, i - 1)>> \o Split(SubSeq(path, i + 1, Len(path)))

NotEmpty(f) == f # <<>>

\* faulty variant: empty folder names are kept
KeepAll(folders) == folders

\* folders = [f for f in folders if f]
SkipEmpty(folders) == SelectSeq(folders, NotEmpty)

Folders(folder_path) == SkipEmpty(Split(Strip(folder_path)))

\* files().list(q=..., pageSize=1): the first match, None without one
Matches(folders, folder_name, parent_id) ==
    {f \in folders : f.name = folder_name /\ f.parent = parent_id}

FirstMatch(folders, folder_name, parent_id) ==
    IF Matches(folders, folder_name, parent_id) = {} THEN "None"
    ELSE (CHOOSE f \in Matches(folders, folder_name, parent_id) : TRUE).id

\* the folder that a walk along the names ends in, None when a name is missing
RECURSIVE ResolveFrom(_, _, _)
ResolveFrom(folders, names, parent_id) ==
    IF names = <<>> THEN parent_id
    ELSE IF FirstMatch(folders, Head(names), parent_id) = "None" THEN "None"
    ELSE ResolveFrom(folders, Tail(names),
                     FirstMatch(folders, Head(names), parent_id))

Resolve(folders, names) == ResolveFrom(folders, names, "root")

\* files().create(...): the store gives the new folder an unused id
NewId(folders) == CHOOSE i \in Ids : \A f \in folders : f.id # i

\* faulty variant: the folder is created whatever the lookup found
NeedsCreateAlways(folder_id) == TRUE

\* if not folder_id
NeedsCreate(folder_id) == folder_id = "None"

WalkOps == {"create_folder_if_not_exists", "get_folder_id_by_path"}
WalkHdo(op) == op = "create_folder_if_not_exists"

\* what a leaf operation raises after its own retries
LeafErrors ==
    {Err("HttpError", 503, "plain", TRUE), Err("HttpError", 404, "plain", FALSE)}

\* One attempt of the operation ends, returning value or raising exc: the
\* breaker of handle_drive_operations books it (d is its state after the
\* OPEN check), the HttpError is converted, and the retry wrapper returns,
\* raises or starts the next attempt.
WalkEnds(r, d, value, exc) ==
    LET left == IF exc = NoOutcome THEN NoOutcome
                ELSE IF WalkHdo(r.op) THEN ConvertHttpError(exc) ELSE exc
        after == IF left = NoOutcome
                 THEN [OnSuccess(rt) EXCEPT !.result.val = value]
                 ELSE ForgetDelays(OnFailure(rt, left, policy, 0))
    IN  /\ rt' = after
        /\ dcb' = IF ~WalkHdo(r.op) THEN d
                  ELSE IF exc = NoOutcome THEN DcbOnSuccess(d)
                  ELSE DcbOnFailure(d, now)
        /\ run' = IF after.pc = "running"
                  THEN [r EXCEPT !.pc = "enter", !.log = <<>>]
                  ELSE [r EXCEPT !.pc = "done",
                                 !.result = IF left = NoOutcome THEN value
                                            ELSE "raised"]

\* the walk goes on below folder_id, or ends there after the last name
WalkOn(r, d, folder_id) ==
    IF Tail(r.todo) = <<>>
    THEN WalkEnds(r, d, folder_id, NoOutcome)
    ELSE /\ run' = [r EXCEPT !.pc = "lookup", !.parent = folder_id,
                             !.todo = Tail(r.todo)]
         /\ dcb' = d
         /\ UNCHANGED rt

\* the operation is called: the retry wrapper starts its loop
FolderCall ==
    /\ run.pc = "idle"
    /\ \E op \in WalkOps, service \in Services, path \in Paths :
          run' = [RunFresh EXCEPT
                    !.op = op, !.service = service, !.path = path,
                    !.pc = "enter",
                    !.before = Resolve(drive.folders, Folders(path))]
    /\ rt' = [RetryFresh EXCEPT !.pc = "running", !.delay = policy.initial_delay]
    /\ UNCHANGED <<policy, breakerVars, limiterVars, classifyVars, fac, dcb,
                   dcbpc, drive>>

\* An attempt starts: the OPEN check of the DriveCircuitBreaker, then the
\* lines before the loop.  A rejected attempt raises DriveOperationError and
\* books nothing.
FolderEnter ==
    /\ run.pc = "enter"
    /\ IF WalkHdo(run.op) /\ DcbFailFast(dcb, now)
       THEN /\ rt' = ForgetDelays(OnFailure(rt, Err("DriveOperationError", 0,
                                                     "none", FALSE), policy, 0))
            /\ run' = IF rt'.pc = "running" THEN run
                      ELSE [run EXCEPT !.pc = "done", !.result = "raised"]
            /\ UNCHANGED dcb
       ELSE LET d == IF WalkHdo(run.op) THEN DcbEnter(dcb) ELSE dcb
            IN  IF run.service = "None"
                THEN WalkEnds(run, d, "None", NoOutcome)
                ELSE IF Folders(run.path) = <<>>
                THEN WalkEnds(run, d, "root", NoOutcome)
                ELSE /\ run' = [run EXCEPT !.pc = "lookup", !.parent = "root",
                                           !.todo = Folders(run.path)]
                     /\ dcb' = d
                     /\ UNCHANGED rt
    /\ UNCHANGED <<policy, breakerVars, limiterVars, classifyVars, fac, dcbpc,
                   drive>>

\* find_folder_id(drive_service, folder_name, parent_folder_id)
FolderLookup ==
    /\ run.pc = "lookup"
    /\ LET folder_name == Head(run.todo)
           folder_id == FirstMatch(drive.folders, folder_name, run.parent)
           asked == [run EXCEPT
                       !.log = Append(@, [kind |-> "list", name |-> folder_name,
                                          parent |-> run.parent,
                                          answer |-> folder_id])]
           failed == [run EXCEPT
                       !.log = Append(@, [kind |-> "list", name |-> folder_name,
                                          parent |-> run.parent,
                                          answer |-> "raised"])]
       IN  IF folder_name = <<>>
           THEN \* an empty name: find_folder_id returns None at once
                /\ run' = [run EXCEPT !.pc = "create"]
                /\ UNCHANGED <<rt, dcb>>
           ELSE \/ \E e \in LeafErrors : WalkEnds(failed, dcb, "None", e)
                \/ IF ~NeedsCreate(folder_id)
                   THEN WalkOn(asked, dcb, folder_id)
                   ELSE IF run.op = "create_folder_if_not_exists"
                   THEN /\ run' = [asked EXCEPT !.pc = "create"]
                        /\ UNCHANGED <<rt, dcb>>
                   ELSE WalkEnds(asked, dcb, "None", NoOutcome)
    /\ UNCHANGED <<policy, breakerVars, limiterVars, classifyVars, fac, dcbpc,
                   drive>>

\* create_folder(drive_service, folder_name, parent_folder_id)
FolderCreate ==
    /\ run.pc = "create"
    /\ LET folder_name == Head(run.todo)
           entry(answer) == [kind |-> "create", name |-> folder_name,
                             parent |-> run.parent, answer |-> answer]
       IN  IF folder_name = <<>>
           THEN \* an empty name: create_folder returns None, and so the walk
                /\ WalkEnds(run, dcb, "None", NoOutcome)
                /\ UNCHANGED drive
           ELSE \/ /\ \E e \in LeafErrors :
                        WalkEnds([run EXCEPT !.log = Append(@, entry("raised"))],
                                 dcb, "None", e)
                   /\ UNCHANGED drive
                \/ /\ Cardinality(drive.folders) < MaxFolders
                   /\ LET folder_id == NewId(drive.folders)
                      IN  /\ drive' = [drive EXCEPT !.folders =
                                         @ \cup {[id |-> folder_id,
                                                  name |-> folder_name,
                                                  parent |-> run.parent]}]
                          /\ WalkOn([run EXCEPT !.log = Append(@, entry(folder_id))],
                                    dcb, folder_id)
    /\ UNCHANGED <<policy, breakerVars, limiterVars, classifyVars, fac, dcbpc>>

\* the caller has the result or the exception; the locals of the call are gone
FolderReturn ==
    /\ run.pc = "done"
    /\ run' = RunFresh
    /\ rt' = RetryFresh
    /\ UNCHANGED <<policy, breakerVars, limiterVars, classifyVars, facadeVars,
                   drive>>

\* folders that are in the store before the first call: none, one, or two
\* of the same name in the same parent
FolderStores ==
    {{}, {[id |-> "f1", name |-> <<"a">>, parent |-> "root"]},
     {[id |-> "f1", name |-> <<"a">>, parent |-> "root"],
      [id |-> "f2", name |-> <<"a">>, parent |-> "root"]}}

InitFolders ==
    /\ policy = FacadePolicy
    /\ rt = RetryFresh
    /\ cfg = UploadBreaker
    /\ state = BreakerFresh
    /\ now = StartTime
    /\ cbpc = [t \in Callers |-> "idle"]
    /\ cbcall = [t \in Callers |-> CallFresh]
    /\ fac = FacFresh
    /\ dcb = DcbFresh
    /\ dcbpc = [t \in Callers |-> "idle"]
    /\ drive \in {[folders |-> fs, files |-> {}] : fs \in FolderStores}
    /\ run = RunFresh
    /\ LimiterIdle
    /\ ClassifyIdle

NextFolders ==
    \/ FacadeTick
    \/ FolderCall
    \/ FolderEnter
    \/ FolderLookup
    \/ FolderCreate
    \/ FolderReturn

SpecFolders == InitFolders /\ [][NextFolders]_vars

(***************************************************************************)
(* Properties of the folder walk                                           *)
(***************************************************************************)
\* the path is empty or holds only '/' characters
RootPath == run.op \in WalkOps /\ Strip(run.path) = <<>>

\* C28: for a path that is empty or all slashes the operation makes no
\* remote call and its result is "root".
RootPathGivesRoot ==
    RootPath => /\ run.log = <<>>
                /\ run.pc = "done" => run.result = "root"

\* C28, amended: for a path that is empty or all slashes no attempt of the
\* operation makes a remote call; called with a drive service, the operation
\* returns "root" unless it raises, and it raises only when the
\* DriveCircuitBreaker around create_folder_if_not_exists rejects the call.
RootPathGivesRootWhenServed ==
    RootPath
       => /\ run.log = <<>>
          /\ run.pc \notin {"lookup", "create"}
          /\ (run.pc = "done" /\ run.result # "raised")
                => run.result = IF run.service = "None" THEN "None" ELSE "root"
          /\ (run.pc = "done" /\ run.result = "raised")
                => /\ run.op = "create_folder_if_not_exists"
                   /\ rt.raised.err = Err("DriveOperationError", 0, "none", FALSE)

RootPathWitness ==
    /\ run.op = "create_folder_if_not_exists"
    /\ run.path = <<"/", "/">>
    /\ run.pc = "done"
    /\ run.result = "root"
    /\ rt.pc = "returned"

\* the names the walk has looked up so far in this attempt
Listed == SelectSeq(run.log, LAMBDA c : c.kind = "list")

\* C29: create_folder_if_not_exists looks every name of the path up in the
\* folder the step before ended in, starting from "root", and creates a
\* folder only right after the lookup of that name in that parent found
\* none.  The ID it returns is the one the path resolves to afterwards, and
\* a call made when the path resolves already returns that ID and creates
\* nothing.
WalkCreatesOnlyMissing ==
    run.op = "create_folder_if_not_exists"
       => /\ \A k \in 1..Len(run.log) :
                /\ run.log[k].parent = IF k = 1 THEN "root"
                                       ELSE IF run.log[k].kind = "create"
                                       THEN run.log[k - 1].parent
                                       ELSE run.log[k - 1].answer
                /\ run.log[k].kind = "create"
                      => /\ k > 1
                         /\ run.log[k - 1].kind = "list"
                         /\ run.log[k - 1].name = run.log[k].name
                         /\ run.log[k - 1].answer = "None"
                /\ (run.log[k].kind = "list" /\ k > 1)
                      => run.log[k - 1].answer \in Ids
          /\ \A k \in 1..Len(Listed) : Listed[k].name = Folders(run.path)[k]
          /\ (run.pc = "done" /\ run.result \in Ids)
                => run.result = Resolve(drive.folders, Folders(run.path))
          /\ (run.before \in Ids /\ run.service # "None")
                => /\ \A k \in 1..Len(run.log) : run.log[k].kind # "create"
                   /\ (run.pc = "done" /\ run.result # "raised")
                         => run.result = run.before

WalkWitness ==
    /\ run.op = "create_folder_if_not_exists"
    /\ Len(Folders(run.path)) = 2
    /\ run.before \in Ids
    /\ run.pc = "done"
    /\ run.result = run.before
    /\ Len(run.log) = 2

(***************************************************************************)
(* upload_file_to_drive over the remote store                              *)
(*                                                                         *)
(* One target folder; the local file exists and is named FileName.  An     *)
(* attempt goes through the circuit_breaker wrapper, the                   *)
(* DriveCircuitBreaker of handle_drive_operations, _handle_existing_file   *)
(* and _perform_resumable_upload; find_file_id and delete_file_by_id are   *)
(* one step each, as the leaf operations of the folder walk.               *)
(***************************************************************************)
MaxFiles == 3
FileName == "n"
FileIds == {IdPool[i] : i \in 1..Min(MaxFiles, Len(IdPool))}

\* the files called file_name in the folder
Named(files, file_name) == {f \in files : f.name = file_name}

\* find_file_id: files().list(q=..., pageSize=1)
FirstFile(files, file_name) ==
    IF Named(files, file_name) = {} THEN "None"
    ELSE (CHOOSE f \in Named(files, file_name) : TRUE).id

NewFileId(files) == CHOOSE i \in FileIds : \A f \in files : f.id # i

\* faulty variant: the existing file is looked up whatever overwrite says
SkipExistingNever(overwrite) == FALSE

\* _handle_existing_file: if not overwrite: return
SkipExisting(overwrite) == ~overwrite

\* One attempt ends, returning value or raising exc: both breakers book it,
\* the HttpError is converted, and the retry wrapper returns, raises or
\* starts the next attempt.
UploadEnds(r, value, exc) ==
    LET left == IF exc = NoOutcome THEN NoOutcome ELSE ConvertHttpError(exc)
        after == IF left = NoOutcome
                 THEN [OnSuccess(rt) EXCEPT !.result.val = value]
                 ELSE ForgetDelays(OnFailure(rt, left, policy, 0))
    IN  /\ rt' = after
        /\ dcb' = IF exc = NoOutcome THEN DcbOnSuccess(dcb)
                  ELSE DcbOnFailure(dcb, now)
        /\ state' = IF exc = NoOutcome
                    THEN OnCallSuccess(state, r.entered, UploadBreaker)
                    ELSE OnCallFailure(state, r.entered, UploadBreaker)
        /\ run' = IF after.pc = "running"
                  THEN [r EXCEPT !.pc = "enter", !.log = <<>>]
                  ELSE [r EXCEPT !.pc = "done",
                                 !.result = IF left = NoOutcome THEN value
                                            ELSE "raised"]

\* upload_file_to_drive(drive_service, file_path, folder_id, overwrite)
UploadCall ==
    /\ run.pc = "idle"
    /\ \E service \in Services, overwrite \in BOOLEAN :
          run' = [RunFresh EXCEPT
                    !.op = "upload_file_to_drive", !.service = service,
                    !.overwrite = overwrite, !.pc = "enter",
                    !.had = Named(drive.files, FileName)]
    /\ rt' = [RetryFresh EXCEPT !.pc = "running", !.delay = policy.initial_delay]
    /\ UNCHANGED <<policy, breakerVars, limiterVars, classifyVars, facadeVars,
                   drive>>

\* An attempt starts: the open-circuit checks of both breakers, then
\* _validate_upload_parameters.  A rejection by the circuit_breaker wrapper
\* raises RetryableError; a rejection by the DriveCircuitBreaker raises
\* DriveOperationError through the circuit_breaker wrapper, which counts it.
UploadEnter ==
    /\ run.pc = "enter"
    /\ LET rejected(e) == ForgetDelays(OnFailure(rt, e, policy, 0))
           ended(r) == IF r.pc = "running" THEN run
                       ELSE [run EXCEPT !.pc = "done", !.result = "raised"]
           entered == Enter(state, now, UploadBreaker)
       IN  IF FailFast(state, now, UploadBreaker)
           THEN /\ rt' = rejected(Err("RetryableError", 0, "none", FALSE))
                /\ run' = ended(rt')
                /\ UNCHANGED <<state, dcb>>
           ELSE IF DcbFailFast(dcb, now)
           THEN /\ rt' = rejected(Err("DriveOperationError", 0, "none", FALSE))
                /\ run' = ended(rt')
                /\ state' = OnCallFailure(entered, now, UploadBreaker)
                /\ UNCHANGED dcb
           ELSE IF run.service = "None"
           THEN /\ rt' = [OnSuccess(rt) EXCEPT !.result.val = "None"]
                /\ run' = [run EXCEPT !.pc = "done", !.result = "None"]
                /\ state' = OnCallSuccess(entered, now, UploadBreaker)
                /\ dcb' = DcbOnSuccess(DcbEnter(dcb))
           ELSE /\ run' = [run EXCEPT !.entered = now,
                                      !.pc = IF SkipExisting(run.overwrite)
                                             THEN "create" ELSE "lookup"]
                /\ state' = entered
                /\ dcb' = DcbEnter(dcb)
                /\ UNCHANGED rt
    /\ UNCHANGED <<policy, cfg, now, cbpc, cbcall, limiterVars, classifyVars,
                   fac, dcbpc, drive>>

\* existing_file_id = find_file_id(...); an exception is logged and dropped
UploadLookup ==
    /\ run.pc = "lookup"
    /\ LET entry(answer) == [kind |-> "list", name |-> FileName,
                             parent |-> "folder", answer |-> answer]
           existing_file_id == FirstFile(drive.files, FileName)
       IN  \/ run' = [run EXCEPT !.log = Append(@, entry("raised")),
                                 !.pc = "create"]
           \/ run' = [run EXCEPT !.log = Append(@, entry(existing_file_id)),
                                 !.target = existing_file_id,
                                 !.pc = IF existing_file_id # "None"
                                        THEN "delete" ELSE "create"]
    /\ UNCHANGED <<retryVars, breakerVars, limiterVars, classifyVars, facadeVars,
                   drive>>

\* delete_success = delete_file_by_id(...): True, False on 403, or an
\* exception that is logged and dropped; the upload goes on in each case
UploadDelete ==
    /\ run.pc = "delete"
    /\ LET entry(answer) == [kind |-> "delete", name |-> FileName,
                             parent |-> run.target, answer |-> answer]
       IN  \/ /\ drive' = [drive EXCEPT !.files =
                              {f \in @ : f.id # run.target}]
              /\ run' = [run EXCEPT !.log = Append(@, entry("True")),
                                    !.pc = "create"]
           \/ /\ \E answer \in {"False", "raised"} :
                    run' = [run EXCEPT !.log = Append(@, entry(answer)),
                                       !.pc = "create"]
              /\ UNCHANGED drive
    /\ UNCHANGED <<retryVars, breakerVars, limiterVars, classifyVars, facadeVars>>

\* _perform_resumable_upload: files().create(...) and its chunks
UploadCreate ==
    /\ run.pc = "create"
    /\ LET entry(answer) == [kind |-> "create", name |-> FileName,
                             parent |-> "folder", answer |-> answer]
       IN  \/ /\ \E e \in LeafErrors :
                    UploadEnds([run EXCEPT !.log = Append(@, entry("raised"))],
                               "None", e)
              /\ UNCHANGED drive
           \/ /\ Cardinality(drive.files) < MaxFiles
              /\ drive' = [drive EXCEPT !.files =
                              @ \cup {[id |-> NewFileId(drive.files),
                                       name |-> FileName]}]
              /\ UploadEnds([run EXCEPT
                               !.log = Append(@, entry(NewFileId(drive.files)))],
                            "link", NoOutcome)
    /\ UNCHANGED <<policy, cfg, now, cbpc, cbcall, limiterVars, classifyVars,
                   fac, dcbpc>>

\* the caller has the link or the exception
UploadReturn ==
    /\ run.pc = "done"
    /\ run' = RunFresh
    /\ rt' = RetryFresh
    /\ UNCHANGED <<policy, breakerVars, limiterVars, classifyVars, facadeVars,
                   drive>>

\* files in the folder before the first call
FileStores ==
    {{}, {[id |-> "f1", name |-> FileName]},
     {[id |-> "f1", name |-> FileName], [id |-> "f2", name |-> "m"]}}

InitUpload ==
    /\ policy = FacadePolicy
    /\ rt = RetryFresh
    /\ cfg = UploadBreaker
    /\ state = BreakerFresh
    /\ now = StartTime
    /\ cbpc = [t \in Callers |-> "idle"]
    /\ cbcall = [t \in Callers |-> CallFresh]
    /\ fac = FacFresh
    /\ dcb = DcbFresh
    /\ dcbpc = [t \in Callers |-> "idle"]
    /\ drive \in {[folders |-> {}, files |-> fs] : fs \in FileStores}
    /\ run = RunFresh
    /\ LimiterIdle
    /\ ClassifyIdle

NextUpload ==
    \/ FacadeTick
    \/ UploadCall
    \/ UploadEnter
    \/ UploadLookup
    \/ UploadDelete
    \/ UploadCreate
    \/ UploadReturn

SpecUpload == InitUpload /\ [][NextUpload]_vars

(***************************************************************************)
(* Properties of the upload                                                *)
(***************************************************************************)
\* the requests of the current attempt, by position
Kind(k) == run.log[k].kind

CbStepCountsRejection(st, current_time, c, ok) ==
    IF FailFast(st, current_time, c)
    THEN [st EXCEPT !.last_failure = current_time]
    ELSE IF ok
    THEN OnCallSuccess(Enter(st, current_time, c), current_time, c)
    ELSE OnCallFailure(Enter(st, current_time, c), current_time, c)

\* one whole call through the circuit_breaker wrapper
CbStep(st, current_time, c, ok) ==
    IF FailFast(st, current_time, c)
    THEN st
    ELSE IF ok
    THEN OnCallSuccess(Enter(st, current_time, c), current_time, c)
    ELSE OnCallFailure(Enter(st, current_time, c), current_time, c)

\* one whole call through DriveCircuitBreaker.call
DcbStep(d, t, ok) ==
    IF DcbFailFast(d, t) THEN d
    ELSE IF ok THEN DcbOnSuccess(DcbEnter(d))
    ELSE DcbOnFailure(DcbEnter(d), t)

\* a call at time now reaches both breakers; ok tells how the function ends
PairStep(ok) ==
    /\ state' = CbStep(state, now, cfg, ok)
    /\ cbcall' = [cbcall EXCEPT ![1] =
          [current_time |-> now, entry |-> state,
           invoked |-> ~FailFast(state, now, cfg),
           func |-> IF FailFast(state, now, cfg) THEN "none"
                    ELSE IF ok THEN "ok" ELSE "exc",
           outcome |-> IF FailFast(state, now, cfg) THEN "circuit_open"
                       ELSE IF ok THEN "result" ELSE "func_exception"]]
    /\ dcb' = DcbStep(dcb, now, ok)
    /\ dcbpc' = [dcbpc EXCEPT ![1] = IF DcbFailFast(dcb, now) THEN "rejected"
                                     ELSE "done"]
    /\ UNCHANGED <<cfg, now, cbpc, retryVars, limiterVars, classifyVars,
                   driveVars, fac>>

PairReturns == PairStep(TRUE)

PairRaises == PairStep(FALSE)

InitPair ==
    /\ cfg = UploadBreaker
    /\ state = BreakerFresh
    /\ now = StartTime
    /\ cbpc = [t \in Callers |-> "idle"]
    /\ cbcall = [t \in Callers |-> CallFresh]
    /\ RetryIdle
    /\ OthersIdle

NextPair == FacadeTick \/ PairReturns \/ PairRaises

SpecPair == InitPair /\ [][NextPair]_vars

\* C36: sequentially, a breaker that is CLOSED has counted fewer failures
\* than its threshold, in the decorator and in DriveCircuitBreaker alike.
ClosedBelowThreshold ==
    /\ state.status = CLOSED => state.failures < cfg.failure_threshold
    /\ dcb.state = "CLOSED" =>
           dcb.failure_count < DcbConfig.failure_threshold

\* both breakers CLOSED one failure short of opening
ClosedBelowWitness ==
    /\ state.status = CLOSED
    /\ state.failures = cfg.failure_threshold - 1
    /\ dcb.state = "CLOSED"
    /\ dcb.failure_count = DcbConfig.failure_threshold - 1

PairCall == PairReturns \/ PairRaises

\* C37: a call rejected by an open circuit leaves the breaker that rejected
\* it as it was (status, failure count, last_failure, last_success; state,
\* failure_count, last_failure_time), and a call is rejected exactly while
\* the circuit is OPEN and no more than the reset timeout has passed since
\* the last failure of an invoked call.
RejectionChangesNothing ==
    [][PairCall =>
         /\ FailFast(state, now, cfg) => state' = state
         /\ DcbFailFast(dcb, now) => dcb' = dcb
         /\ FailFast(state, now, cfg) <=>
               (state.status = OPEN
                /\ now - state.last_failure <= cfg.reset_timeout)
         /\ DcbFailFast(dcb, now) <=>
               (dcb.state = "OPEN"
                /\ now - dcb.last_failure_time <= DcbConfig.recovery_timeout)
      ]_vars

\* both breakers have just rejected a call that came after the failure that
\* opened them, and still show that failure's time
RejectionWitness ==
    /\ cbcall[1].outcome = "circuit_open"
    /\ dcbpc[1] = "rejected"
    /\ cbcall[1].current_time > state.last_failure
    /\ cbcall[1].current_time > dcb.last_failure_time
    /\ state = cbcall[1].entry

\* C38: given the same call times and outcomes, the decorator and
\* DriveCircuitBreaker agree on every call whether it fails fast.
BreakersAgree ==
    cbcall[1].outcome # "none" =>
        (cbcall[1].outcome = "circuit_open" <=> dcbpc[1] = "rejected")

(***************************************************************************)
(* handle_drive_operations around any function                             *)
(*                                                                         *)
(* The wrapper is called again and again around a function that returns or *)
(* raises one of Raised; cl.error is what the function raised (NoOutcome   *)
(* when it was not invoked or returned) and cl.answer what left the        *)
(* wrapper (RemoteOk when it returned).                                    *)
(***************************************************************************)
DriveErrors ==
    {"DriveOperationError", "DriveAuthenticationError", "DriveAPIError",
     "DriveFileError", "DriveFolderError", "DriveQuotaError",
     "DriveRateLimitError", "ConfigurationError"}

\* isinstance(e, DriveOperationError)
IsDriveOperationError(e) == e.type \in DriveErrors

HdoStatuses == {0, 400, 401, 403, 404, 429, 500, 503}

Raised ==
    {Err("HttpError", st, body, FALSE) :
        st \in HdoStatuses, body \in {"plain", "quota"}}
    \cup {Err("HttpError", 503, "plain", TRUE)}
    \cup {Err(type, 0, "none", FALSE) : type \in DriveErrors}
    \cup {Err("RetryableError", 0, "none", FALSE),
          Err("ValueError", 0, "none", FALSE),
          Err("OSError", 0, "none", TRUE)}

\* the three except clauses of the wrapper, in their order
HdoConvert(e) ==
    IF IsDriveOperationError(e) THEN e
    ELSE IF e.type = "HttpError" THEN ConvertHttpError(e)
    ELSE Err("DriveOperationError", 0, "none", e.kw)

\* one call of the wrapper
HdoCall ==
    /\ \E out \in {RemoteOk} \cup Raised :
          IF DcbFailFast(dcb, now)
          THEN /\ dcb' = dcb
               /\ cl' = [error |-> NoOutcome,
                         answer |-> HdoConvert(Err("DriveOperationError", 0,
                                                   "none", FALSE))]
          ELSE IF out = RemoteOk
          THEN /\ dcb' = DcbOnSuccess(DcbEnter(dcb))
               /\ cl' = [error |-> NoOutcome, answer |-> RemoteOk]
          ELSE /\ dcb' = DcbOnFailure(DcbEnter(dcb), now)
               /\ cl' = [error |-> out, answer |-> HdoConvert(out)]
    /\ UNCHANGED <<retryVars, breakerVars, limiterVars, driveVars, fac, dcbpc>>

InitHdo ==
    /\ cl = [error |-> NoOutcome, answer |-> NoOutcome]
    /\ RetryIdle
    /\ BreakerIdle
    /\ LimiterIdle
    /\ FacadeIdle
    /\ DriveIdle

NextHdo == FacadeTick \/ HdoCall

SpecHdo == InitHdo /\ [][NextHdo]_vars

\* C39: what leaves handle_drive_operations is a DriveOperationError or a
\* subclass: a DriveOperationError unchanged, an HttpError converted by its
\* status (401, 429, 403 with "quota", 404, else API error; first match),
\* anything else wrapped in a plain DriveOperationError.
HdoTaxonomy ==
    cl.answer \notin {NoOutcome, RemoteOk} =>
        /\ IsDriveOperationError(cl.answer)
        /\ IsDriveOperationError(cl.error) => cl.answer = cl.error
        /\ cl.error.type = "HttpError" =>
              cl.answer.type =
                 IF cl.error.status = 401 THEN "DriveAuthenticationError"
                 ELSE IF cl.error.status = 429 THEN "DriveRateLimitError"
                 ELSE IF cl.error.status = 403 /\ cl.error.body = "quota"
                 THEN "DriveQuotaError"
                 ELSE IF cl.error.status = 404 THEN "DriveFileError"
                 ELSE "DriveAPIError"
        /\ (cl.error.type \notin DriveErrors \cup {"HttpError"}) =>
              cl.answer.type = "DriveOperationError"

\* a 403 about quota left the wrapper as a DriveQuotaError
HdoTaxonomyWitness ==
    /\ cl.error = Err("HttpError", 403, "quota", FALSE)
    /\ cl.answer.type = "DriveQuotaError"

\* C35: an overwriting upload that found at most one file of the name in
\* the folder and returns a link leaves exactly one file of that name.
OverwriteLeavesOne ==
    (/\ run.op = "upload_file_to_drive"
     /\ run.overwrite
     /\ Cardinality(run.had) <= 1
     /\ run.pc = "done"
     /\ run.result = "link")
    => Cardinality(Named(drive.files, FileName)) = 1

(***************************************************************************)
(* Deleting folders (SpecDelete)                                           *)
(*                                                                         *)
(* delete_folder_by_path, get_folder_id_by_path and delete_folder_by_id,   *)
(* called one after the other, with the retry loops of the functions they  *)
(* call: rt is the loop of the function that was called, run.mid the loop  *)
(* of get_folder_id_by_path inside delete_folder_by_path, and run.leaf the *)
(* loop of find_folder_id or of delete_folder_by_id inside another         *)
(* function.  run.lookups and run.deletes count the remote list requests   *)
(* and the remote delete requests of the call; run.answered tells that a   *)
(* list request of the call did not fail with a retryable error.           *)
(***************************************************************************)
DelFresh ==
    [op |-> "none", service |-> "None", path |-> <<>>, folder_id |-> "None",
     pc |-> "idle", parent |-> "root", todo |-> <<>>, mid |-> 0, leaf |-> 0,
     lookups |-> 0, answered |-> FALSE, deletes |-> 0, result |-> "None"]

PathOps == {"delete_folder_by_path", "get_folder_id_by_path"}

\* folder_path arguments
MaxDelPathLen == 2
DelPaths == {path \in Paths : Len(path) <= MaxDelPathLen}

\* folder_id arguments of delete_folder_by_id
IdArgs == {"", "root", "f1"}

\* handle_drive_operations is around delete_folder_by_path only
DelHdo(op) == op = "delete_folder_by_path"

\* faulty variant: the root folder is not recognised
IsRootNever(folder_id) == FALSE

\* if folder_id == "root"
IsRoot(folder_id) == folder_id = "root"

\* the retry loop of a function called inside another goes on after e
InnerRetries(e, retry_count) ==
    ~GiveUp(ShouldRetry(e, FacadePolicy.retryable_exceptions), retry_count,
            FacadePolicy.max_retries)

\* One attempt of the called operation ends, returning value or raising exc
\* (d is the DriveCircuitBreaker after its OPEN check).
DelEnds(r, d, value, exc) ==
    LET left == IF exc = NoOutcome THEN NoOutcome
                ELSE IF DelHdo(r.op) THEN ConvertHttpError(exc) ELSE exc
        after == IF left = NoOutcome
                 THEN [OnSuccess(rt) EXCEPT !.result.val = value]
                 ELSE ForgetDelays(OnFailure(rt, left, policy, 0))
    IN  /\ rt' = after
        /\ dcb' = IF ~DelHdo(r.op) THEN d
                  ELSE IF exc = NoOutcome THEN DcbOnSuccess(d)
                  ELSE DcbOnFailure(d, now)
        /\ run' = IF after.pc = "running"
                  THEN [r EXCEPT !.pc = "enter", !.mid = 0, !.leaf = 0,
                                 !.todo = <<>>, !.parent = "root",
                                 !.folder_id = IF r.op \in PathOps THEN "None"
                                               ELSE @]
                  ELSE [r EXCEPT !.pc = "done",
                                 !.result = IF left = NoOutcome THEN value
                                            ELSE "raised"]

\* the operation is called: its retry wrapper starts its loop
DelCall ==
    /\ run.pc = "idle"
    /\ \/ \E op \in PathOps, service \in Services, path \in DelPaths :
             run' = [DelFresh EXCEPT !.op = op, !.service = service,
                                     !.path = path, !.pc = "enter"]
       \/ \E service \in Services, folder_id \in IdArgs :
             run' = [DelFresh EXCEPT !.op = "delete_folder_by_id",
                                     !.service = service,
                                     !.folder_id = folder_id, !.pc = "enter"]
    /\ rt' = [RetryFresh EXCEPT !.pc = "running", !.delay = policy.initial_delay]
    /\ UNCHANGED <<policy, breakerVars, limiterVars, classifyVars, fac, dcb,
                   dcbpc, drive>>

\* An attempt starts: the OPEN check of the DriveCircuitBreaker around
\* delete_folder_by_path, then the lines before the first remote request.
DelEnter ==
    /\ run.pc = "enter"
    /\ IF DelHdo(run.op) /\ DcbFailFast(dcb, now)
       THEN /\ rt' = ForgetDelays(OnFailure(rt, Err("DriveOperationError", 0,
                                                     "none", FALSE), policy, 0))
            /\ run' = IF rt'.pc = "running" THEN run
                      ELSE [run EXCEPT !.pc = "done", !.result = "raised"]
            /\ UNCHANGED dcb
       ELSE LET d == IF DelHdo(run.op) THEN DcbEnter(dcb) ELSE dcb
                walk == [run EXCEPT !.pc = "lookup", !.parent = "root",
                                    !.todo = Folders(run.path)]
            IN  CASE run.op = "delete_folder_by_id" ->
                       IF run.service = "None"
                       THEN DelEnds(run, d, "False", NoOutcome)
                       ELSE /\ run' = [run EXCEPT !.pc = "delete"]
                            /\ dcb' = d
                            /\ UNCHANGED rt
                  [] run.op = "get_folder_id_by_path" ->
                       IF run.service = "None"
                       THEN DelEnds(run, d, "None", NoOutcome)
                       ELSE IF Folders(run.path) = <<>>
                       THEN DelEnds(run, d, "root", NoOutcome)
                       ELSE /\ run' = walk
                            /\ dcb' = d
                            /\ UNCHANGED rt
                  [] run.op = "delete_folder_by_path" ->
                       IF run.service = "None" \/ run.path = <<>>
                       THEN DelEnds(run, d, "False", NoOutcome)
                       ELSE /\ run' = IF Folders(run.path) = <<>>
                                      THEN [run EXCEPT !.pc = "delete",
                                                       !.folder_id = "root"]
                                      ELSE walk
                            /\ dcb' = d
                            /\ UNCHANGED rt
    /\ UNCHANGED <<policy, breakerVars, limiterVars, classifyVars, fac, dcbpc,
                   drive>>

\* find_folder_id(drive_service, folder_name, current_folder_id): one remote
\* list request
DelLookup ==
    /\ run.pc = "lookup"
    /\ LET folder_id == FirstMatch(drive.folders, Head(run.todo), run.parent)
           asked == [run EXCEPT !.lookups = @ + 1, !.leaf = 0,
                                !.answered = TRUE]
           failed(e) == [run EXCEPT !.lookups = @ + 1,
                                    !.answered = @ \/ ~is_retryable_error(e)]
       IN  \/ \E e \in LeafErrors :
                IF InnerRetries(e, run.leaf)
                THEN \* find_folder_id tries again
                     /\ run' = [failed(e) EXCEPT !.leaf = @ + 1]
                     /\ UNCHANGED <<rt, dcb>>
                ELSE IF run.op = "delete_folder_by_path"
                        /\ InnerRetries(e, run.mid)
                THEN \* get_folder_id_by_path walks the path again
                     /\ run' = [failed(e) EXCEPT !.mid = @ + 1, !.leaf = 0,
                                                 !.parent = "root",
                                                 !.todo = Folders(run.path)]
                     /\ UNCHANGED <<rt, dcb>>
                ELSE DelEnds([failed(e) EXCEPT !.leaf = 0], dcb, "None", e)
           \/ IF folder_id = "None"
              THEN DelEnds(asked, dcb,
                           IF run.op = "delete_folder_by_path" THEN "False"
                           ELSE "None", NoOutcome)
              ELSE IF Tail(run.todo) # <<>>
              THEN /\ run' = [asked EXCEPT !.parent = folder_id,
                                           !.todo = Tail(run.todo)]
                   /\ UNCHANGED <<rt, dcb>>
              ELSE IF run.op = "get_folder_id_by_path"
              THEN DelEnds(asked, dcb, folder_id, NoOutcome)
              ELSE /\ run' = [asked EXCEPT !.pc = "delete",
                                           !.folder_id = folder_id]
                   /\ UNCHANGED <<rt, dcb>>
    /\ UNCHANGED <<policy, breakerVars, limiterVars, classifyVars, fac, dcbpc,
                   drive>>

\* delete_folder_by_id(drive_service, folder_id), the service being given:
\* its guards, then one remote delete request
DelById ==
    /\ run.pc = "delete"
    /\ LET requested == [run EXCEPT !.deletes = @ + 1]
       IN  IF run.folder_id = "" \/ IsRoot(run.folder_id)
           THEN /\ DelEnds(run, dcb, "False", NoOutcome)
                /\ UNCHANGED drive
           ELSE \/ \* deleted, or 404: already gone
                   /\ drive' = [drive EXCEPT !.folders =
                                   {f \in @ : f.id # run.folder_id}]
                   /\ DelEnds(requested, dcb, "True", NoOutcome)
                \/ \* 403
                   /\ DelEnds(requested, dcb, "False", NoOutcome)
                   /\ UNCHANGED drive
                \/ /\ \E e \in {x \in LeafErrors : x.status # 404} :
                        IF run.op = "delete_folder_by_path"
                           /\ InnerRetries(e, run.leaf)
                        THEN /\ run' = [requested EXCEPT !.leaf = @ + 1]
                             /\ UNCHANGED <<rt, dcb>>
                        ELSE DelEnds([requested EXCEPT !.leaf = 0], dcb,
                                     "None", e)
                   /\ UNCHANGED drive
    /\ UNCHANGED <<policy, breakerVars, limiterVars, classifyVars, fac, dcbpc>>

\* the caller has the result or the exception
DelReturn ==
    /\ run.pc = "done"
    /\ run' = DelFresh
    /\ rt' = RetryFresh
    /\ UNCHANGED <<policy, breakerVars, limiterVars, classifyVars, facadeVars,
                   drive>>

InitDelete ==
    /\ policy = FacadePolicy
    /\ rt = RetryFresh
    /\ cfg = UploadBreaker
    /\ state = BreakerFresh
    /\ now = StartTime
    /\ cbpc = [t \in Callers |-> "idle"]
    /\ cbcall = [t \in Callers |-> CallFresh]
    /\ fac = FacFresh
    /\ dcb = DcbFresh
    /\ dcbpc = [t \in Callers |-> "idle"]
    /\ drive \in {[folders |-> fs, files |-> {}] : fs \in FolderStores}
    /\ run = DelFresh
    /\ LimiterIdle
    /\ ClassifyIdle

NextDelete ==
    \/ FacadeTick
    \/ DelCall
    \/ DelEnter
    \/ DelLookup
    \/ DelById
    \/ DelReturn

SpecDelete == InitDelete /\ [][NextDelete]_vars

\* the call is about the root folder
RootTarget ==
    \/ run.op = "delete_folder_by_id" /\ run.folder_id = "root"
    \/ run.op = "delete_folder_by_path" /\ Folders(run.path) = <<>>

\* C33 as stated: a delete of the root folder, by its ID or by a path that
\* resolves to it, makes no remote delete request and returns False.
RootDeleteReturnsFalse ==
    RootTarget =>
        /\ run.deletes = 0
        /\ run.pc = "done" => run.result = "False"

\* the call was rejected by the open DriveCircuitBreaker
DelRejected ==
    /\ run.op = "delete_folder_by_path"
    /\ run.result = "raised"
    /\ rt.raised.err = Err("DriveOperationError", 0, "none", FALSE)
    /\ dcb.state = "OPEN"
    /\ run.lookups = 0

\* C33: a delete of the root folder, by its ID or by a path that resolves
\* to it, makes no remote delete request; it returns False, unless
\* delete_folder_by_path is rejected by the open DriveCircuitBreaker.
RootNeverDeleted ==
    RootTarget =>
        /\ run.deletes = 0
        /\ run.pc = "done" => (run.result = "False" \/ DelRejected)

\* delete_folder_by_path(service, "/") has returned False
RootDeleteWitness ==
    /\ run.op = "delete_folder_by_path"
    /\ run.path = <<"/">>
    /\ run.service = "service"
    /\ run.pc = "done"
    /\ run.result = "False"
    /\ run.deletes = 0

\* C34: while every remote lookup of a call by path fails with a retryable
\* error, the call makes at most MAX_RETRIES + 1 lookups.
LookupBudget ==
    (run.op \in PathOps /\ ~run.answered) => run.lookups <= MAX_RETRIES + 1

(***************************************************************************)
(* The guards of the facade operations (SpecGuards)                        *)
(*                                                                         *)
(* The operations that test their arguments before their first remote      *)
(* request, called one after the other with a service or None, with an     *)
(* ID, name, path or folder_id (run.arg) that is empty or not, and, for     *)
(* upload_file_to_drive, with a local file that exists or not.             *)
(* run.requests counts the remote requests of the call.                    *)
(***************************************************************************)
GuardFresh ==
    [op |-> "none", service |-> "None", arg |-> "", file_exists |-> TRUE,
     pc |-> "idle", requests |-> 0, result |-> "None"]

GuardedOps ==
    {"find_folder_id", "find_file_id", "create_folder", "delete_file_by_id",
     "delete_folder_by_id", "delete_folder_by_path", "upload_file_to_drive"}

\* handle_drive_operations is around these
GuardHdo(op) == op \in {"delete_folder_by_path", "upload_file_to_drive"}

\* return None / return False
FailureValue(op) ==
    IF op \in {"delete_file_by_id", "delete_folder_by_id",
               "delete_folder_by_path"}
    THEN "False" ELSE "None"

\* faulty variant: the local file is not looked for
ValidWithoutFile(r) == r.service # "None" /\ r.arg # ""

\* the tests at the top of the operation (_validate_upload_parameters for
\* upload_file_to_drive) let the call through
Valid(r) == r.service # "None" /\ r.arg # "" /\ r.file_exists

\* the body of the operation, when its remote request would end with out
GuardBody(r, out) ==
    IF ~Valid(r)
    THEN [remote |-> FALSE, exc |-> NoOutcome, value |-> FailureValue(r.op)]
    ELSE IF out = RemoteOk
    THEN [remote |-> TRUE, exc |-> NoOutcome, value |-> "ok"]
    ELSE IF r.op \in DeleteOps \cup {"delete_folder_by_path"}
            /\ out.status \in {404, 403}
    THEN [remote |-> TRUE, exc |-> NoOutcome,
          value |-> IF out.status = 404 THEN "True" ELSE "False"]
    ELSE [remote |-> TRUE, exc |-> out, value |-> "None"]

\* one attempt: the breakers around the operation, then its body
GuardLayers(r, st, d, t, out) ==
    LET body == GuardBody(r, out)
        entered == Enter(st, t, UploadBreaker)
        booked == IF r.op \notin BreakerOps THEN st
                  ELSE IF body.exc = NoOutcome
                  THEN OnCallSuccess(entered, t, UploadBreaker)
                  ELSE OnCallFailure(entered, t, UploadBreaker)
    IN  IF r.op \in BreakerOps /\ FailFast(st, t, UploadBreaker)
        THEN [state |-> st, dcb |-> d, remote |-> FALSE, value |-> "None",
              exc |-> Err("RetryableError", 0, "none", FALSE)]
        ELSE IF GuardHdo(r.op) /\ DcbFailFast(d, t)
        THEN [state |-> IF r.op \in BreakerOps
                        THEN OnCallFailure(entered, t, UploadBreaker) ELSE st,
              dcb |-> d, remote |-> FALSE, value |-> "None",
              exc |-> Err("DriveOperationError", 0, "none", FALSE)]
        ELSE [state |-> booked,
              dcb |-> IF ~GuardHdo(r.op) THEN d
                      ELSE IF body.exc = NoOutcome
                      THEN DcbOnSuccess(DcbEnter(d))
                      ELSE DcbOnFailure(DcbEnter(d), t),
              remote |-> body.remote, value |-> body.value,
              exc |-> IF body.exc = NoOutcome THEN NoOutcome
                      ELSE IF GuardHdo(r.op) THEN ConvertHttpError(body.exc)
                      ELSE body.exc]

\* an operation is called: its retry wrapper starts its loop
GuardCall ==
    /\ run.pc = "idle"
    /\ \E op \in GuardedOps, service \in Services, arg \in {"", "x"},
          file_exists \in BOOLEAN :
          /\ op # "upload_file_to_drive" => file_exists
          /\ run' = [GuardFresh EXCEPT !.op = op, !.service = service,
                                       !.arg = arg,
                                       !.file_exists = file_exists,
                                       !.pc = "running"]
    /\ rt' = [RetryFresh EXCEPT !.pc = "running", !.delay = policy.initial_delay]
    /\ UNCHANGED <<policy, breakerVars, limiterVars, classifyVars, fac, dcb,
                   dcbpc, drive>>

\* one iteration of the retry loop
GuardAttempt ==
    /\ run.pc = "running"
    /\ \E out \in {RemoteOk} \cup LeafErrors :
          LET a == GuardLayers(run, state, dcb, now, out)
              after == IF a.exc = NoOutcome
                       THEN [OnSuccess(rt) EXCEPT !.result.val = a.value]
                       ELSE ForgetDelays(OnFailure(rt, a.exc, policy, 0))
          IN  /\ state' = a.state
              /\ dcb' = a.dcb
              /\ rt' = after
              /\ run' = [run EXCEPT
                           !.requests = IF a.remote THEN @ + 1 ELSE @,
                           !.pc = IF after.pc = "running" THEN @ ELSE "done",
                           !.result = IF after.pc = "running" THEN @
                                      ELSE IF a.exc = NoOutcome THEN a.value
                                      ELSE "raised"]
    /\ UNCHANGED <<policy, cfg, now, cbpc, cbcall, limiterVars, classifyVars,
                   fac, dcbpc, drive>>

\* the caller has the result or the exception
GuardReturn ==
    /\ run.pc = "done"
    /\ run' = GuardFresh
    /\ rt' = RetryFresh
    /\ UNCHANGED <<policy, breakerVars, limiterVars, classifyVars, facadeVars,
                   drive>>

InitGuards ==
    /\ policy = FacadePolicy
    /\ rt = RetryFresh
    /\ cfg = UploadBreaker
    /\ state = BreakerFresh
    /\ now = StartTime
    /\ cbpc = [t \in Callers |-> "idle"]
    /\ cbcall = [t \in Callers |-> CallFresh]
    /\ fac = FacFresh
    /\ dcb = DcbFresh
    /\ dcbpc = [t \in Callers |-> "idle"]
    /\ drive = [folders |-> {}, files |-> {}]
    /\ run = GuardFresh
    /\ LimiterIdle
    /\ ClassifyIdle

NextGuards == FacadeTick \/ GuardCall \/ GuardAttempt \/ GuardReturn

SpecGuards == InitGuards /\ [][NextGuards]_vars

\* the call has no service, an empty ID, name, path or folder_id, or no
\* local file to upload
BadInput ==
    /\ run.op \in GuardedOps
    /\ run.service = "None" \/ run.arg = "" \/ ~run.file_exists

\* C32 as stated: a call with a missing service, an empty ID or name or a
\* missing local file makes no remote request and returns the failure value.
BadInputReturnsFailure ==
    BadInput =>
        /\ run.requests = 0
        /\ run.pc = "done" => run.result = FailureValue(run.op)

\* the call was rejected by an open breaker around the operation
GuardRejected ==
    /\ GuardHdo(run.op)
    /\ run.result = "raised"
    /\ rt.raised.err \in {Err("DriveOperationError", 0, "none", FALSE),
                          Err("RetryableError", 0, "none", FALSE)}

\* C32: a call with a missing service, an empty ID or name or a missing
\* local file makes no remote request; it returns the failure value, unless
\* an open breaker around the operation rejects the call.
BadInputMakesNoRequest ==
    BadInput =>
        /\ run.requests = 0
        /\ run.pc = "done" =>
              (run.result = FailureValue(run.op) \/ GuardRejected)

\* an upload of a file that does not exist has returned None
BadInputWitness ==
    /\ run.op = "upload_file_to_drive"
    /\ run.service = "service"
    /\ run.arg = "x"
    /\ ~run.file_exists
    /\ run.pc = "done"
    /\ run.result = "None"
    /\ run.requests = 0

(***************************************************************************)
(* The HTTP endpoints /upload_file and /delete_folder (SpecEndpoints)      *)
(*                                                                         *)
(* One request after the other.  The facade functions the endpoints call   *)
(* are taken by what they can return or raise.  run.temp_file_path is the  *)
(* endpoint's local variable, run.saved tells that the request has saved   *)
(* the uploaded file, run.on_disk that the temporary file exists, and      *)
(* run.raised is the exception a facade function raised into the endpoint. *)
(* os.remove is taken to succeed.                                          *)
(***************************************************************************)
EpFresh ==
    [op |-> "none", pc |-> "idle", token |-> FALSE, valid |-> FALSE,
     overwrite |-> TRUE, temp_file_path |-> "None", saved |-> FALSE, on_disk |-> FALSE,
     raised |-> NoOutcome, status |-> 0, type |-> "none"]

Endpoints == {"upload_file", "delete_folder"}

\* what a function behind handle_drive_operations can raise
HdoRaises == {HdoConvert(e) : e \in Raised}

\* upload_file_to_drive: also the rejection of its circuit_breaker decorator
UploadRaises == HdoRaises \cup {Err("RetryableError", 0, "none", FALSE)}

\* return jsonify({"error": {"type": ..., "message": ...}}), status
Respond(r, status, type) ==
    [r EXCEPT !.pc = "responded", !.status = status, !.type = type]

\* _cleanup_temp_file(temp_file_path)
CleanupTempFile(r) ==
    IF r.temp_file_path # "None" /\ r.on_disk
    THEN [r EXCEPT !.on_disk = FALSE] ELSE r

\* except Exception as e: cleanup (upload only), then 500 with e's class name
OnException(r, e) ==
    Respond([(IF r.op = "upload_file" THEN CleanupTempFile(r) ELSE r)
               EXCEPT !.raised = e], 500, e.type)

\* a request arrives
EpRequest ==
    /\ run.pc = "idle"
    /\ \E op \in Endpoints, token \in BOOLEAN, valid \in BOOLEAN,
          overwrite \in BOOLEAN :
          \* overwrite is a form parameter of /upload_file, true by default
          /\ op = "delete_folder" => overwrite
          /\ run' = [EpFresh EXCEPT !.op = op, !.token = token,
                                    !.valid = valid, !.overwrite = overwrite,
                                    !.on_disk = run.on_disk, !.pc = "start"]
    /\ UNCHANGED <<retryVars, breakerVars, limiterVars, classifyVars,
                   facadeVars, drive>>

\* check_token_exists() and the validation of the form, in the order of the
\* endpoint
EpCheck ==
    /\ run.pc = "start"
    /\ run' = IF run.op = "upload_file"
              THEN IF ~run.token
                   THEN Respond(run, 401, "AuthenticationError")
                   ELSE IF ~run.valid
                   THEN Respond(run, 400, "ValidationError")
                   ELSE [run EXCEPT !.pc = "auth"]
              ELSE IF ~run.valid
                   THEN Respond(run, 400, "ValidationError")
                   ELSE IF ~run.token
                   THEN Respond(run, 401, "AuthenticationError")
                   ELSE [run EXCEPT !.pc = "auth"]
    /\ UNCHANGED <<retryVars, breakerVars, limiterVars, classifyVars,
                   facadeVars, drive>>

\* drive_service = authenticate_google_drive()
EpAuthenticate ==
    /\ run.pc = "auth"
    /\ \/ run' = [run EXCEPT !.pc = IF run.op = "upload_file" THEN "folder"
                                    ELSE "delete"]
       \/ run' = Respond(run, 500, "AuthenticationError")
       \/ \E e \in HdoRaises : run' = OnException(run, e)
    /\ UNCHANGED <<retryVars, breakerVars, limiterVars, classifyVars,
                   facadeVars, drive>>

\* folder_id = create_folder_if_not_exists(...), then file.save(temp_file_path)
EpFolder ==
    /\ run.pc = "folder"
    /\ \/ run' = [run EXCEPT !.pc = "upload", !.saved = TRUE, !.on_disk = TRUE]
       \/ run' = Respond(run, 500, "AuthenticationError")
       \/ \E e \in HdoRaises : run' = OnException(run, e)
    /\ UNCHANGED <<retryVars, breakerVars, limiterVars, classifyVars,
                   facadeVars, drive>>

\* file_url = upload_file_to_drive(...); _handle_file_upload returns
\* (file_url, temp_file_path) only when that call returns
EpUpload ==
    /\ run.pc = "upload"
    /\ \/ run' = Respond(CleanupTempFile([run EXCEPT !.temp_file_path = "path"]),
                         200, "success")
       \/ run' = Respond([run EXCEPT !.temp_file_path = "path"], 500,
                         "UploadError")
       \/ \E e \in UploadRaises : run' = OnException(run, e)
    /\ UNCHANGED <<retryVars, breakerVars, limiterVars, classifyVars,
                   facadeVars, drive>>

\* delete_folder_by_path(drive_service, folder_path)
EpDelete ==
    /\ run.pc = "delete"
    /\ \/ run' = Respond(run, 200, "success")
       \/ run' = Respond(run, 404, "DeletionError")
       \/ \E e \in HdoRaises : run' = OnException(run, e)
    /\ UNCHANGED <<retryVars, breakerVars, limiterVars, classifyVars,
                   facadeVars, drive>>

\* the response has been sent
EpDone ==
    /\ run.pc = "responded"
    /\ run' = [EpFresh EXCEPT !.on_disk = run.on_disk]
    /\ UNCHANGED <<retryVars, breakerVars, limiterVars, classifyVars,
                   facadeVars, drive>>

InitEndpoints ==
    /\ run = EpFresh
    /\ drive = [folders |-> {}, files |-> {}]
    /\ RetryIdle
    /\ BreakerIdle
    /\ LimiterIdle
    /\ ClassifyIdle
    /\ FacadeIdle

NextEndpoints ==
    \/ EpRequest
    \/ EpCheck
    \/ EpAuthenticate
    \/ EpFolder
    \/ EpUpload
    \/ EpDelete
    \/ EpDone

SpecEndpoints == InitEndpoints /\ [][NextEndpoints]_vars

\* C31: a categorized failure raised by the facade reaches the client with
\* the status of its category (authentication 401, quota 403, not found 404,
\* rate limit 429, API 500) and a body that carries its type.
CategoryKeepsStatus ==
    (run.pc = "responded" /\ run.raised # NoOutcome) =>
        /\ run.type = run.raised.type
        /\ run.raised.type = "DriveAuthenticationError" => run.status = 401
        /\ run.raised.type = "DriveQuotaError" => run.status = 403
        /\ run.raised.type = "DriveFileError" => run.status = 404
        /\ run.raised.type = "DriveRateLimitError" => run.status = 429
        /\ run.raised.type = "DriveAPIError" => run.status = 500

\* C40: when the response of /upload_file is returned, the temporary file
\* the request saved is gone.
NoTempFileLeft ==
    (run.pc = "responded" /\ run.saved) => ~run.on_disk
====
